---- MODULE Spec2Model ----
(***************************************************************************)
(* A model of the blart adaptive radix trie: the four inner node classes   *)
(* (InnerNode4/16/48/256), the header with its compressed prefix, the      *)
(* leaf, the search / insert / delete descent and the double ended leaf    *)
(* iterator.                                                               *)
(*                                                                         *)
(* A node pointer is modelled by the node it points to: every inner node   *)
(* uniquely owns its children, so a trie is a nested value and two tries   *)
(* are the same value exactly when they are equal "addresses aside".       *)
(* Arrays are functions over 0..SIZE-1, as in the source.                  *)
(***************************************************************************)
EXTENDS Integers, Sequences, FiniteSets, TLC

VARIABLES root, last, rt, cnt, iter, front_out, back_out, pending,
          the_node, shadow, nlast, optr, keygen, hdr

vars == <<root, last, rt, cnt, iter, front_out, back_out, pending,
          the_node, shadow, nlast, optr, keygen, hdr>>

\* the container, its bookkeeping and its iterator
trieVars == <<root, last, rt, cnt, iter, front_out, back_out, pending>>

\* one key generator and one header on their own
aloneVars == <<keygen, hdr>>

\* one inner node on its own, one opaque node pointer, and the above
nodeVars == <<the_node, shadow, nlast, optr, keygen, hdr>>

(***************************************************************************)
(* Small helpers                                                           *)
(***************************************************************************)
Byte == 0..255

MinOf(S) == CHOOSE x \in S : \A y \in S : x <= y

MaxOf(S) == CHOOSE x \in S : \A y \in S : x >= y

\* s[from..], 0-based, as a sequence
Suffix(s, from) == SubSeq(s, from + 1, Len(s))

\* s[..n], 0-based, as a sequence
Take(s, n) == SubSeq(s, 1, n)

\* slice::copy_within(a..b, dest) on an array held as a function over 0..len-1
copy_within(arr, a, b, dest) ==
    [i \in DOMAIN arr |->
        IF i >= dest /\ i < dest + (b - a) THEN arr[i - dest + a] ELSE arr[i]]

(***************************************************************************)
(* Markers that are not nodes                                              *)
(***************************************************************************)
\* MaybeUninit::uninit() in a child pointer slot
Uninit == [type |-> "Uninit"]

\* Option::None where the source has Option<OpaqueNodePtr>
NoChild == [type |-> "None"]

\* the result of an operation that panicked
Panic == [type |-> "Panic"]

\* the container holds no root
NoRoot == [type |-> "NoRoot"]

\* the result of an operation whose behaviour is undefined
UB == [type |-> "UB"]

(***************************************************************************)
(* NodeType                                                                *)
(***************************************************************************)
InnerTypes == {"Node4", "Node16", "Node48", "Node256"}

upper_capacity(t) ==
    CASE t = "Node4" -> 4
      [] t = "Node16" -> 16
      [] t = "Node48" -> 48
      [] t = "Node256" -> 256
      [] t = "Leaf" -> 0

\* NodeType::capacity_range, a Range<usize>: start included, end excluded
capacity_range(t) ==
    CASE t = "Node4" -> [start |-> 1, end |-> 5]
      [] t = "Node16" -> [start |-> 5, end |-> 17]
      [] t = "Node48" -> [start |-> 17, end |-> 49]
      [] t = "Node256" -> [start |-> 49, end |-> 256]
      [] t = "Leaf" -> [start |-> 0, end |-> 0]

\* Range::contains
Range_contains(r, x) == r.start <= x /\ x < r.end

should_shrink_never(t, num_children) == FALSE

should_shrink_off_by_one(t, num_children) ==
    CASE t = "Node4" -> FALSE
      [] t = "Node16" -> num_children < 4
      [] t = "Node48" -> num_children < 16
      [] t = "Node256" -> num_children < 48

should_shrink_inner_node(t, num_children) ==
    CASE t = "Node4" -> FALSE
      [] t = "Node16" -> num_children <= 4
      [] t = "Node48" -> num_children <= 16
      [] t = "Node256" -> num_children <= 48

(***************************************************************************)
(* Header                                                                  *)
(***************************************************************************)
\* Header::empty
empty_header == [num_children |-> 0, prefix |-> <<>>]

extend_prefix(h, new_bytes) == [h EXCEPT !.prefix = @ \o new_bytes]

prepend_prefix_appends(h, new_bytes) == [h EXCEPT !.prefix = @ \o new_bytes]

\* the number of prefix bytes the header stores inline
NUM_PREFIX_BYTES == 14

\* prepend_prefix on a prefix that cannot leave its inline array: the bytes
\* that do not fit are dropped
prepend_prefix_inline_only(h, new_bytes) ==
    LET all == new_bytes \o h.prefix
    IN  [h EXCEPT !.prefix = IF Len(all) > NUM_PREFIX_BYTES
                             THEN SubSeq(all, 1, NUM_PREFIX_BYTES) ELSE all]

prepend_prefix(h, new_bytes) == [h EXCEPT !.prefix = new_bytes \o @]

ltrim_prefix_keeps_one(h, num_bytes) ==
    IF num_bytes > Len(h.prefix) THEN Panic
    ELSE [h EXCEPT !.prefix = Suffix(@, num_bytes - 1)]

ltrim_prefix(h, num_bytes) ==
    IF num_bytes > Len(h.prefix) THEN Panic
    ELSE [h EXCEPT !.prefix = Suffix(@, num_bytes)]

read_prefix(h) == h.prefix

prefix_size(h) == Len(h.prefix)

\* zip(prefix, key).take_while(a == b).count()
RECURSIVE zip_take_while_eq(_, _)
zip_take_while_eq(a, b) ==
    IF a = <<>> \/ b = <<>> THEN 0
    ELSE IF Head(a) = Head(b) THEN 1 + zip_take_while_eq(Tail(a), Tail(b))
    ELSE 0

\* match_prefix counting every position at which the bytes agree
match_prefix_counts_equal_pairs(h, possible_key) ==
    Cardinality({i \in 1..Len(h.prefix) : i <= Len(possible_key) /\ h.prefix[i] = possible_key[i]})

match_prefix(h, possible_key) == zip_take_while_eq(read_prefix(h), possible_key)

(***************************************************************************)
(* LeafNode                                                                *)
(***************************************************************************)
LeafNode_new(key, value) == [type |-> "Leaf", key |-> key, value |-> value]

matches_full_key_len(leaf, possible_key) == Len(leaf.key) = Len(possible_key)

matches_full_key(leaf, possible_key) == leaf.key = possible_key

(***************************************************************************)
(* InnerNodeCompressed<SIZE>: InnerNode4 and InnerNode16                   *)
(***************************************************************************)
InnerNodeCompressed_empty(t) ==
    [type |-> t,
     header |-> empty_header,
     keys |-> [i \in 0..(upper_capacity(t) - 1) |-> 0],
     child_pointers |-> [i \in 0..(upper_capacity(t) - 1) |-> Uninit]]

\* the initialized portion of the keys, as the set of its indices
initialized_indices(node) == 0..(node.header.num_children - 1)

lookup_child_index4_skips_first(node, key_fragment) ==
    LET hits == {i \in initialized_indices(node) : i > 0 /\ node.keys[i] = key_fragment}
    IN  IF hits = {} THEN -1 ELSE MinOf(hits)

\* InnerNode4: linear scan of the initialized keys; -1 is None
lookup_child_index4(node, key_fragment) ==
    LET hits == {i \in initialized_indices(node) : node.keys[i] = key_fragment}
    IN  IF hits = {} THEN -1 ELSE MinOf(hits)

\* the 16-lane compare of InnerNode16 without the mask of the initialized lanes
lookup_child_index16_no_mask(node, key_fragment) ==
    LET cmp == {i \in 0..15 : node.keys[i] = key_fragment}
    IN  IF cmp # {} THEN MinOf(cmp) ELSE -1

\* InnerNode16: compare all 16 lanes, AND with (1 << num_children) - 1,
\* trailing_zeros of the bit field; -1 is None
lookup_child_index16(node, key_fragment) ==
    LET cmp == {i \in 0..15 : node.keys[i] = key_fragment}
        mask == {i \in 0..15 : i < node.header.num_children}
        bitfield == cmp \cap mask
    IN  IF bitfield # {} THEN MinOf(bitfield) ELSE -1

lookup_child_index(node, key_fragment) ==
    IF node.type = "Node4" THEN lookup_child_index4(node, key_fragment)
    ELSE lookup_child_index16(node, key_fragment)

\* WritePoint: Existing(i), Last(i), Shift(i)
find_write_point4(node, key_fragment) ==
    LET stop == {i \in initialized_indices(node) : key_fragment <= node.keys[i]}
    IN  IF stop = {} THEN [kind |-> "Last", index |-> node.header.num_children]
        ELSE IF key_fragment < node.keys[MinOf(stop)]
             THEN [kind |-> "Shift", index |-> MinOf(stop)]
             ELSE [kind |-> "Existing", index |-> MinOf(stop)]

find_write_point16(node, key_fragment) ==
    LET found == lookup_child_index16(node, key_fragment)
        cmp == {i \in 0..15 : key_fragment < node.keys[i]}
        mask == {i \in 0..15 : i < node.header.num_children}
        bitfield == cmp \cap mask
    IN  IF found # -1 THEN [kind |-> "Existing", index |-> found]
        ELSE IF bitfield # {} THEN [kind |-> "Shift", index |-> MinOf(bitfield)]
        ELSE [kind |-> "Last", index |-> node.header.num_children]

find_write_point_append(node, key_fragment) ==
    LET found == lookup_child_index(node, key_fragment)
    IN  IF found # -1 THEN [kind |-> "Existing", index |-> found]
        ELSE [kind |-> "Last", index |-> node.header.num_children]

find_write_point(node, key_fragment) ==
    IF node.type = "Node4" THEN find_write_point4(node, key_fragment)
    ELSE find_write_point16(node, key_fragment)

lookup_child_inner(node, key_fragment) ==
    LET child_index == lookup_child_index(node, key_fragment)
    IN  IF child_index = -1 THEN NoChild ELSE node.child_pointers[child_index]

write_child_inner_keeps_existing(node, key_fragment, child_pointer) ==
    LET num_children == node.header.num_children
        size == upper_capacity(node.type)
        wp == find_write_point(node, key_fragment)
        child_index == wp.index
    IN  CASE wp.kind = "Existing" -> node
          [] wp.kind = "Last" ->
                IF child_index >= size THEN UB
                ELSE [node EXCEPT !.header.num_children = @ + 1,
                                  !.keys[child_index] = key_fragment,
                                  !.child_pointers[child_index] = child_pointer]
          [] wp.kind = "Shift" ->
                IF num_children >= size THEN Panic
                ELSE [node EXCEPT
                        !.header.num_children = @ + 1,
                        !.keys = [copy_within(@, child_index, num_children, child_index + 1)
                                    EXCEPT ![child_index] = key_fragment],
                        !.child_pointers =
                            [copy_within(@, child_index, num_children, child_index + 1)
                                EXCEPT ![child_index] = child_pointer]]

\* A write that needs a slot past the end of the arrays does not return a
\* node.  On Shift copy_within panics.  On Last num_children is incremented,
\* assume(child_index < self.keys.len()) is false and get_unchecked_mut
\* writes past the end of both arrays: undefined behaviour.
write_child_inner(node, key_fragment, child_pointer) ==
    LET num_children == node.header.num_children
        size == upper_capacity(node.type)
        wp == find_write_point(node, key_fragment)
        child_index == wp.index
    IN  CASE wp.kind = "Existing" ->
                [node EXCEPT !.keys[child_index] = key_fragment,
                             !.child_pointers[child_index] = child_pointer]
          [] wp.kind = "Last" ->
                IF child_index >= size THEN UB
                ELSE [node EXCEPT !.header.num_children = @ + 1,
                                  !.keys[child_index] = key_fragment,
                                  !.child_pointers[child_index] = child_pointer]
          [] wp.kind = "Shift" ->
                IF num_children >= size THEN Panic
                ELSE [node EXCEPT
                        !.header.num_children = @ + 1,
                        !.keys = [copy_within(@, child_index, num_children, child_index + 1)
                                    EXCEPT ![child_index] = key_fragment],
                        !.child_pointers =
                            [copy_within(@, child_index, num_children, child_index + 1)
                                EXCEPT ![child_index] = child_pointer]]

\* remove_child_inner with the key bytes left where they were
remove_child_inner_keys_stay(node, key_fragment) ==
    LET child_index == lookup_child_index(node, key_fragment)
        n == node.header.num_children
    IN  IF child_index = -1 THEN [node |-> node, removed |-> NoChild]
        ELSE [node |->
                [node EXCEPT
                    !.header.num_children = @ - 1,
                    !.child_pointers =
                        [copy_within(@, child_index + 1, n, child_index)
                            EXCEPT ![n - 1] = Uninit]],
              removed |-> node.child_pointers[child_index]]

\* The vacated last slot of child_pointers keeps a stale bit copy behind
\* MaybeUninit; it is never read as initialized and is held as Uninit.  The
\* stale byte in keys is kept, the 16-lane compare reads it.
remove_child_inner(node, key_fragment) ==
    LET child_index == lookup_child_index(node, key_fragment)
        n == node.header.num_children
    IN  IF child_index = -1 THEN [node |-> node, removed |-> NoChild]
        ELSE [node |->
                [node EXCEPT
                    !.header.num_children = @ - 1,
                    !.child_pointers =
                        [copy_within(@, child_index + 1, n, child_index)
                            EXCEPT ![n - 1] = Uninit],
                    !.keys = copy_within(@, child_index + 1, n, child_index)],
              removed |-> node.child_pointers[child_index]]

\* change_block_size without the assertion, keeping what fits
change_block_size_truncates(node, new_type) ==
    LET new_size == upper_capacity(new_type)
        n == MinOf({node.header.num_children, new_size})
    IN  [type |-> new_type,
         header |-> [node.header EXCEPT !.num_children = n],
         keys |-> [i \in 0..(new_size - 1) |-> IF i < n THEN node.keys[i] ELSE 0],
         child_pointers |->
            [i \in 0..(new_size - 1) |->
                IF i < n THEN node.child_pointers[i] ELSE Uninit]]

\* InnerNode4::grow (to "Node16") and InnerNode16::shrink (to "Node4")
change_block_size(node, new_type) ==
    LET new_size == upper_capacity(new_type)
        n == node.header.num_children
    IN  IF n > new_size THEN Panic
        ELSE [type |-> new_type,
              header |-> node.header,
              keys |-> [i \in 0..(new_size - 1) |-> IF i < n THEN node.keys[i] ELSE 0],
              child_pointers |->
                [i \in 0..(new_size - 1) |->
                    IF i < n THEN node.child_pointers[i] ELSE Uninit]]

\* RestrictedNodeIndex::<48>::EMPTY
EMPTY == 48

\* grow_node48 without the assertion that the node is full
grow_node48_any_count(node) ==
    LET n == node.header.num_children
    IN  [type |-> "Node48",
         header |-> node.header,
         child_indices |->
            [b \in Byte |->
                LET at == {i \in 0..(n - 1) : node.keys[i] = b}
                IN  IF at = {} THEN EMPTY ELSE MaxOf(at)],
         child_pointers |->
            [i \in 0..47 |-> IF i < n THEN node.child_pointers[i] ELSE Uninit]]

\* grow_node48 asserting only that the keys fit the Node16
grow_node48_when_fits(node) ==
    IF node.header.num_children > 16 THEN Panic ELSE grow_node48_any_count(node)

\* InnerNode16::grow
grow_node48(node) ==
    LET n == node.header.num_children
    IN  IF n # 16 THEN Panic
        ELSE [type |-> "Node48",
              header |-> node.header,
              child_indices |->
                [b \in Byte |->
                    LET at == {i \in 0..(n - 1) : node.keys[i] = b}
                    IN  IF at = {} THEN EMPTY ELSE MaxOf(at)],
              child_pointers |->
                [i \in 0..47 |-> IF i < n THEN node.child_pointers[i] ELSE Uninit]]

(***************************************************************************)
(* InnerNode48                                                             *)
(***************************************************************************)
InnerNode48_empty ==
    [type |-> "Node48",
     header |-> empty_header,
     child_indices |-> [b \in Byte |-> EMPTY],
     child_pointers |-> [i \in 0..47 |-> Uninit]]

InnerNode48_lookup_child(node, key_fragment) ==
    LET index == node.child_indices[key_fragment]
    IN  IF index # EMPTY THEN node.child_pointers[index] ELSE NoChild

\* InnerNode48::write_child taking a fresh slot for every write
InnerNode48_write_child_fresh_slot(node, key_fragment, child_pointer) ==
    LET child_index == node.header.num_children
    IN  IF child_index >= 48 THEN Panic
        ELSE [node EXCEPT !.child_indices[key_fragment] = child_index,
                          !.header.num_children = @ + 1,
                          !.child_pointers[child_index] = child_pointer]

InnerNode48_write_child(node, key_fragment, child_pointer) ==
    IF node.child_indices[key_fragment] = EMPTY
    THEN LET child_index == node.header.num_children
         IN  IF child_index >= 48 THEN Panic
             ELSE [node EXCEPT !.child_indices[key_fragment] = child_index,
                               !.header.num_children = @ + 1,
                               !.child_pointers[child_index] = child_pointer]
    ELSE [node EXCEPT !.child_pointers[node.child_indices[key_fragment]] = child_pointer]

\* InnerNode48::remove_child with the slots of the other key bytes left as
\* they were
InnerNode48_remove_child_no_compaction(node, key_fragment) ==
    LET restricted_index == node.child_indices[key_fragment]
        n == node.header.num_children
    IN  IF restricted_index = EMPTY THEN [node |-> node, removed |-> NoChild]
        ELSE [node |->
                [node EXCEPT
                    !.child_pointers =
                        [copy_within(@, restricted_index + 1, n, restricted_index)
                            EXCEPT ![n - 1] = Uninit],
                    !.child_indices[key_fragment] = EMPTY,
                    !.header.num_children = @ - 1],
              removed |-> node.child_pointers[restricted_index]]

\* The slot vacated at the end by the compaction is held as Uninit, as in
\* remove_child_inner.
InnerNode48_remove_child(node, key_fragment) ==
    LET restricted_index == node.child_indices[key_fragment]
        n == node.header.num_children
    IN  IF restricted_index = EMPTY THEN [node |-> node, removed |-> NoChild]
        ELSE [node |->
                [node EXCEPT
                    !.child_pointers =
                        [copy_within(@, restricted_index + 1, n, restricted_index)
                            EXCEPT ![n - 1] = Uninit],
                    !.child_indices =
                        [b \in Byte |->
                            IF b = key_fragment THEN EMPTY
                            ELSE IF @[b] # EMPTY /\ restricted_index < @[b]
                                 THEN @[b] - 1
                                 ELSE @[b]],
                    !.header.num_children = @ - 1],
              removed |-> node.child_pointers[restricted_index]]

\* the key bytes of an InnerNode48 that have a child
InnerNode48_keys(node) == {b \in Byte : node.child_indices[b] # EMPTY}

\* InnerNode48Iter / Node48Iter yields (key byte, child) scanning the index
\* table upwards
InnerNode48_grow(node) ==
    [type |-> "Node256",
     header |-> node.header,
     child_pointers |->
        [b \in Byte |->
            IF node.child_indices[b] # EMPTY
            THEN node.child_pointers[node.child_indices[b]]
            ELSE NoChild]]

\* position of b in the ascending order of the set S
RankIn(S, b) == Cardinality({x \in S : x < b})

\* the element of S at position i of its ascending order
AtRank(S, i) == CHOOSE b \in S : RankIn(S, b) = i

\* InnerNode48::shrink without the sort: the pairs are taken in slot order
InnerNode48_shrink_unsorted(node, junk) ==
    LET n == node.header.num_children
        key_of(i) == CHOOSE b \in Byte : node.child_indices[b] = i
    IN  IF n > 16 THEN Panic
        ELSE [type |-> "Node16",
              header |-> node.header,
              keys |-> [i \in 0..15 |-> IF i < n THEN key_of(i) ELSE junk],
              child_pointers |->
                [i \in 0..15 |-> IF i < n THEN node.child_pointers[i] ELSE Uninit]]

\* junk is the content of the key bytes left unwritten (uninit_array)
InnerNode48_shrink(node, junk) ==
    LET n == node.header.num_children
        ks == InnerNode48_keys(node)
    IN  IF n > 16 THEN Panic
        ELSE [type |-> "Node16",
              header |-> node.header,
              keys |-> [i \in 0..15 |-> IF i < n THEN AtRank(ks, i) ELSE junk],
              child_pointers |->
                [i \in 0..15 |->
                    IF i < n THEN node.child_pointers[node.child_indices[AtRank(ks, i)]]
                    ELSE Uninit]]

\* u8x64::from_array(child_indices[lo..lo + 64]).simd_eq(splat(48))
\* .to_bitmask(): the lanes of the chunk whose index entry is empty, as the
\* set of the bits set in the u64
chunk_bitmask(child_indices, lo) == {i \in 0..63 : child_indices[lo + i] = EMPTY}

\* u64::MAX as the set of its bits
U64_MAX_BITS == 0..63

\* u64::trailing_ones
trailing_ones(r) == MinOf({i \in 0..64 : i = 64 \/ i \notin r})

\* u64::leading_ones
leading_ones(r) == MinOf({i \in 0..64 : i = 64 \/ (63 - i) \notin r})

\* the tail of min and max: the key (usize) is assumed to be below 256 and
\* the index entry below the number of initialized child pointers
InnerNode48_child_at(node, key) ==
    IF key \notin Byte THEN UB
    ELSE LET idx == node.child_indices[key]
         IN  IF idx >= node.header.num_children THEN UB
             ELSE [key |-> key, child |-> node.child_pointers[idx]]

\* InnerNode48::min with the chunk offsets left out
InnerNode48_min_no_offset(node) ==
    LET r0 == chunk_bitmask(node.child_indices, 0)
        r1 == chunk_bitmask(node.child_indices, 64)
        r2 == chunk_bitmask(node.child_indices, 128)
        r3 == chunk_bitmask(node.child_indices, 192)
        key == IF r0 # U64_MAX_BITS THEN trailing_ones(r0)
               ELSE IF r1 # U64_MAX_BITS THEN trailing_ones(r1)
               ELSE IF r2 # U64_MAX_BITS THEN trailing_ones(r2)
               ELSE trailing_ones(r3)
    IN  InnerNode48_child_at(node, key)

\* InnerNode48::min (feature nightly): four 64-lane compares with the empty
\* sentinel, trailing_ones of the first mask that is not all ones
InnerNode48_min(node) ==
    LET r0 == chunk_bitmask(node.child_indices, 0)
        r1 == chunk_bitmask(node.child_indices, 64)
        r2 == chunk_bitmask(node.child_indices, 128)
        r3 == chunk_bitmask(node.child_indices, 192)
        key == IF r0 # U64_MAX_BITS THEN trailing_ones(r0)
               ELSE IF r1 # U64_MAX_BITS THEN trailing_ones(r1) + 64
               ELSE IF r2 # U64_MAX_BITS THEN trailing_ones(r2) + 128
               ELSE trailing_ones(r3) + 192
    IN  InnerNode48_child_at(node, key)

\* InnerNode48::max (feature nightly): leading_ones of the last mask that is
\* not all ones; 63 - 64 underflows the u32 when the node has no child
InnerNode48_max(node) ==
    LET r0 == chunk_bitmask(node.child_indices, 0)
        r1 == chunk_bitmask(node.child_indices, 64)
        r2 == chunk_bitmask(node.child_indices, 128)
        r3 == chunk_bitmask(node.child_indices, 192)
        key == IF r3 # U64_MAX_BITS THEN 255 - leading_ones(r3)
               ELSE IF r2 # U64_MAX_BITS THEN 191 - leading_ones(r2)
               ELSE IF r1 # U64_MAX_BITS THEN 127 - leading_ones(r1)
               ELSE 63 - leading_ones(r0)
    IN  InnerNode48_child_at(node, key)

\* the bounds-checked tail of the scalar min and max
InnerNode48_scan_hit(node, key) ==
    LET idx == node.child_indices[key]
    IN  IF idx >= node.header.num_children THEN Panic
        ELSE [key |-> key, child |-> node.child_pointers[idx]]

RECURSIVE InnerNode48_scan(_, _, _, _)
\* the loop of the scalar min (step 1) and max (step -1) over the keys from
\* lo to hi, halved: the first non-empty entry in scan order, None without
InnerNode48_scan(node, lo, hi, step) ==
    IF lo > hi THEN NoChild
    ELSE IF lo = hi
         THEN IF node.child_indices[lo] = EMPTY THEN NoChild ELSE [key |-> lo]
    ELSE LET mid == (lo + hi) \div 2
             near == IF step = 1 THEN InnerNode48_scan(node, lo, mid, step)
                     ELSE InnerNode48_scan(node, mid + 1, hi, step)
         IN  IF near # NoChild THEN near
             ELSE IF step = 1 THEN InnerNode48_scan(node, mid + 1, hi, step)
             ELSE InnerNode48_scan(node, lo, mid, step)

\* InnerNode48::min (not nightly): forward scan of the index table;
\* unreachable!() when every entry is empty
InnerNode48_min_scalar(node) ==
    LET hit == InnerNode48_scan(node, 0, 255, 1)
    IN  IF hit = NoChild THEN Panic ELSE InnerNode48_scan_hit(node, hit.key)

\* InnerNode48::max (not nightly): backward scan of the index table
InnerNode48_max_scalar(node) ==
    LET hit == InnerNode48_scan(node, 0, 255, -1)
    IN  IF hit = NoChild THEN Panic ELSE InnerNode48_scan_hit(node, hit.key)

(***************************************************************************)
(* InnerNode256                                                            *)
(***************************************************************************)
InnerNode256_empty ==
    [type |-> "Node256",
     header |-> empty_header,
     child_pointers |-> [b \in Byte |-> NoChild]]

\* InnerNode256::lookup_child reading the slot of the next key byte
InnerNode256_lookup_child_next_slot(node, key_fragment) ==
    node.child_pointers[(key_fragment + 1) % 256]

InnerNode256_lookup_child(node, key_fragment) == node.child_pointers[key_fragment]

InnerNode256_write_child(node, key_fragment, child_pointer) ==
    [node EXCEPT
        !.child_pointers[key_fragment] = child_pointer,
        !.header.num_children =
            IF node.child_pointers[key_fragment] = NoChild THEN @ + 1 ELSE @]

\* InnerNode256::remove_child counting down whether or not a child was there
InnerNode256_remove_child_always_counts(node, key_fragment) ==
    LET removed_child == node.child_pointers[key_fragment]
    IN  [node |->
            [node EXCEPT
                !.child_pointers[key_fragment] = NoChild,
                !.header.num_children = IF @ > 0 THEN @ - 1 ELSE @],
         removed |-> removed_child]

InnerNode256_remove_child(node, key_fragment) ==
    LET removed_child == node.child_pointers[key_fragment]
    IN  [node |->
            [node EXCEPT
                !.child_pointers[key_fragment] = NoChild,
                !.header.num_children = IF removed_child # NoChild THEN @ - 1 ELSE @],
         removed |-> removed_child]

InnerNode256_keys(node) == {b \in Byte : node.child_pointers[b] # NoChild}

\* InnerNode256Iter yields the occupied entries in ascending key byte order;
\* enumerate() numbers them 0, 1, ...
InnerNode256_shrink(node) ==
    LET n == node.header.num_children
        ks == InnerNode256_keys(node)
    IN  IF n > 48 THEN Panic
        ELSE [type |-> "Node48",
              header |-> node.header,
              child_indices |-> [b \in Byte |-> IF b \in ks THEN RankIn(ks, b) ELSE EMPTY],
              child_pointers |->
                [i \in 0..47 |->
                    IF i < n THEN node.child_pointers[AtRank(ks, i)] ELSE Uninit]]

(***************************************************************************)
(* trait InnerNode, dispatched on the node class                           *)
(***************************************************************************)
lookup_child(node, key_fragment) ==
    CASE node.type \in {"Node4", "Node16"} -> lookup_child_inner(node, key_fragment)
      [] node.type = "Node48" -> InnerNode48_lookup_child(node, key_fragment)
      [] node.type = "Node256" -> InnerNode256_lookup_child(node, key_fragment)

write_child(node, key_fragment, child_pointer) ==
    CASE node.type \in {"Node4", "Node16"} ->
            write_child_inner(node, key_fragment, child_pointer)
      [] node.type = "Node48" -> InnerNode48_write_child(node, key_fragment, child_pointer)
      [] node.type = "Node256" -> InnerNode256_write_child(node, key_fragment, child_pointer)

remove_child(node, key_fragment) ==
    CASE node.type \in {"Node4", "Node16"} -> remove_child_inner(node, key_fragment)
      [] node.type = "Node48" -> InnerNode48_remove_child(node, key_fragment)
      [] node.type = "Node256" -> InnerNode256_remove_child(node, key_fragment)

grow(node) ==
    CASE node.type = "Node4" -> change_block_size(node, "Node16")
      [] node.type = "Node16" -> grow_node48(node)
      [] node.type = "Node48" -> InnerNode48_grow(node)
      [] node.type = "Node256" -> Panic

shrink(node, junk) ==
    CASE node.type = "Node4" -> Panic
      [] node.type = "Node16" -> change_block_size(node, "Node4")
      [] node.type = "Node48" -> InnerNode48_shrink(node, junk)
      [] node.type = "Node256" -> InnerNode256_shrink(node)

is_full_never(node) == FALSE

is_full(node) == node.header.num_children >= upper_capacity(node.type)

\* the key bytes of an inner node that have a child, read off its layout
node_keys(node) ==
    CASE node.type \in {"Node4", "Node16"} ->
            {node.keys[i] : i \in initialized_indices(node)}
      [] node.type = "Node48" -> InnerNode48_keys(node)
      [] node.type = "Node256" -> InnerNode256_keys(node)

\* the child stored for a key byte of node_keys, read off the layout
\* without the lookup routines
child_at(node, b) ==
    CASE node.type \in {"Node4", "Node16"} ->
            node.child_pointers[CHOOSE i \in initialized_indices(node) : node.keys[i] = b]
      [] node.type = "Node48" -> node.child_pointers[node.child_indices[b]]
      [] node.type = "Node256" -> node.child_pointers[b]

(***************************************************************************)
(* Reading a trie off its layout (no lookup routine is used here)          *)
(***************************************************************************)
IsInner(node) == node.type \in InnerTypes

RECURSIVE LeafSet(_)
LeafSet(node) ==
    CASE node.type = "Leaf" -> {node}
      [] IsInner(node) -> UNION {LeafSet(child_at(node, b)) : b \in node_keys(node)}
      [] OTHER -> {}

\* every leaf with the bytes on the way to it: for each inner node passed,
\* its compressed prefix and then the key byte of the child taken
RECURSIVE LeafPaths(_, _)
LeafPaths(node, path) ==
    CASE node.type = "Leaf" -> {[leaf |-> node, path |-> path]}
      [] IsInner(node) ->
            UNION {LeafPaths(child_at(node, b), path \o read_prefix(node.header) \o <<b>>) :
                      b \in node_keys(node)}
      [] OTHER -> {}

\* the leaves are counted by position, two leaves with one key count twice
NumLeaves(node) == Cardinality(LeafPaths(node, <<>>))

\* every inner node of the trie, the root included
RECURSIVE InnerNodes(_)
InnerNodes(node) ==
    IF IsInner(node)
    THEN {node} \cup UNION {InnerNodes(child_at(node, b)) : b \in node_keys(node)}
    ELSE {}

StoredKeys(node) == {l.key : l \in LeafSet(node)}

IsPrefixOf(a, b) == Len(a) <= Len(b) /\ Take(b, Len(a)) = a

IsStrictPrefixOf(a, b) == Len(a) < Len(b) /\ Take(b, Len(a)) = a

\* lexicographic order of byte strings
RECURSIVE LexLess(_, _)
LexLess(a, b) ==
    IF b = <<>> THEN FALSE
    ELSE IF a = <<>> THEN TRUE
    ELSE IF Head(a) # Head(b) THEN Head(a) < Head(b)
    ELSE LexLess(Tail(a), Tail(b))

(***************************************************************************)
(* search (section 4.5 of the specification)                               *)
(***************************************************************************)
NotFound == [type |-> "NotFound"]

\* search_from taking the next key byte without looking at the length of
\* the key: indexing past the end of the key panics
RECURSIVE search_from_no_length_check(_, _, _)
search_from_no_length_check(node, key, depth) ==
    IF node.type = "Leaf"
    THEN IF matches_full_key(node, key) THEN node ELSE NotFound
    ELSE LET matched == match_prefix(node.header, Suffix(key, depth))
             d == depth + matched
         IN  IF d >= Len(key) THEN Panic
             ELSE IF matched # prefix_size(node.header) THEN NotFound
             ELSE LET child == lookup_child(node, key[d + 1])
                  IN  IF child = NoChild THEN NotFound
                      ELSE search_from_no_length_check(child, key, d + 1)

RECURSIVE search_from(_, _, _)
search_from(node, key, depth) ==
    IF node.type = "Leaf"
    THEN IF matches_full_key(node, key) THEN node ELSE NotFound
    ELSE LET matched == match_prefix(node.header, Suffix(key, depth))
             d == depth + matched
         IN  IF matched # prefix_size(node.header) THEN NotFound
             ELSE IF d >= Len(key) THEN NotFound
             ELSE LET child == lookup_child(node, key[d + 1])
                  IN  IF child = NoChild THEN NotFound
                      ELSE search_from(child, key, d + 1)

search(r, key) == IF r = NoRoot THEN NotFound ELSE search_from(r, key, 0)

(***************************************************************************)
(* insert (section 4.6 of the specification)                               *)
(***************************************************************************)
\* the two children are written with write_child, which orders them
split_node4(prefix, byte_a, child_a, byte_b, child_b) ==
    LET n0 == [InnerNodeCompressed_empty("Node4") EXCEPT
                    !.header = extend_prefix(@, prefix)]
    IN  write_child(write_child(n0, byte_a, child_a), byte_b, child_b)

\* (d) add a leaf under an inner node, growing the node first when full
add_child(node, key_fragment, leaf) ==
    write_child(IF is_full(node) THEN grow(node) ELSE node, key_fragment, leaf)

RECURSIVE insert_from(_, _, _, _)
insert_from(node, key, value, depth) ==
    IF node.type = "Leaf"
    THEN IF matches_full_key(node, key)
         THEN \* (a) replace
              [res |-> "Replaced", old |-> node.value,
               node |-> [node EXCEPT !.value = value]]
         ELSE \* (b) split at leaf
              LET L == zip_take_while_eq(Suffix(node.key, depth), Suffix(key, depth))
                  d == depth + L
              IN  IF d >= Len(key) \/ d >= Len(node.key)
                  THEN [res |-> "PrefixConflict", old |-> 0, node |-> node]
                  ELSE [res |-> "Inserted", old |-> 0,
                        node |-> split_node4(SubSeq(key, depth + 1, d),
                                             node.key[d + 1], node,
                                             key[d + 1], LeafNode_new(key, value))]
    ELSE LET matched == match_prefix(node.header, Suffix(key, depth))
             d == depth + matched
         IN  IF d >= Len(key)
             THEN [res |-> "PrefixConflict", old |-> 0, node |-> node]
             ELSE IF matched # prefix_size(node.header)
             THEN \* (c) split at inner node with prefix mismatch
                  LET old_prefix == read_prefix(node.header)
                      trimmed == [node EXCEPT !.header = ltrim_prefix(@, matched + 1)]
                  IN  [res |-> "Inserted", old |-> 0,
                       node |-> split_node4(Take(old_prefix, matched),
                                            old_prefix[matched + 1], trimmed,
                                            key[d + 1], LeafNode_new(key, value))]
             ELSE \* (d) descend and add child
                  LET child == lookup_child(node, key[d + 1])
                  IN  IF child = NoChild
                      THEN [res |-> "Inserted", old |-> 0,
                            node |-> add_child(node, key[d + 1], LeafNode_new(key, value))]
                      ELSE LET r == insert_from(child, key, value, d + 1)
                           IN  IF r.res = "PrefixConflict"
                               THEN [res |-> "PrefixConflict", old |-> 0, node |-> node]
                               ELSE [r EXCEPT !.node = write_child(node, key[d + 1], r.node)]

insert(r, key, value) ==
    IF r = NoRoot
    THEN [res |-> "Inserted", old |-> 0, node |-> LeafNode_new(key, value)]
    ELSE insert_from(r, key, value, 0)

(***************************************************************************)
(* delete (section 4.7 of the specification)                               *)
(***************************************************************************)
\* the parent after one of its leaves was removed: shrunk, collapsed into
\* its only child, or left alone
after_remove(node, junk) ==
    LET n == node.header.num_children
    IN  IF should_shrink_inner_node(node.type, n) THEN shrink(node, junk)
        ELSE IF node.type = "Node4" /\ n = 1
        THEN LET b == node.keys[0]
                 C == node.child_pointers[0]
             IN  IF C.type = "Leaf" THEN C
                 ELSE [C EXCEPT !.header =
                          prepend_prefix(@, read_prefix(node.header) \o <<b>>)]
        ELSE node

RECURSIVE remove_from(_, _, _, _)
remove_from(node, key, depth, junk) ==
    LET matched == match_prefix(node.header, Suffix(key, depth))
        d == depth + matched
        miss == [found |-> FALSE, value |-> 0, node |-> node]
    IN  IF matched # prefix_size(node.header) \/ d >= Len(key) THEN miss
        ELSE LET child == lookup_child(node, key[d + 1])
             IN  IF child = NoChild THEN miss
                 ELSE IF child.type = "Leaf"
                 THEN IF ~matches_full_key(child, key) THEN miss
                      ELSE [found |-> TRUE, value |-> child.value,
                            node |-> after_remove(remove_child(node, key[d + 1]).node, junk)]
                 ELSE LET r == remove_from(child, key, d + 1, junk)
                      IN  IF ~r.found THEN miss
                          ELSE [r EXCEPT !.node = write_child(node, key[d + 1], r.node)]

remove(r, key, junk) ==
    IF r = NoRoot THEN [found |-> FALSE, value |-> 0, node |-> r]
    ELSE IF r.type = "Leaf"
    THEN IF matches_full_key(r, key)
         THEN [found |-> TRUE, value |-> r.value, node |-> NoRoot]
         ELSE [found |-> FALSE, value |-> 0, node |-> r]
    ELSE remove_from(r, key, 0, junk)

(***************************************************************************)
(* Per node child iterators (double ended)                                 *)
(*   lo, hi: the positions not yet consumed are lo..hi-1; positions are    *)
(*   array indices for InnerNodeCompressedIter and key bytes for the       *)
(*   InnerNode48Iter / InnerNode256Iter index scans                        *)
(***************************************************************************)
InnerNode_iter(node) ==
    IF node.type \in {"Node4", "Node16"}
    THEN [kind |-> "InnerNodeCompressed", node |-> node,
          lo |-> 0, hi |-> node.header.num_children]
    ELSE [kind |-> IF node.type = "Node48" THEN "InnerNode48" ELSE "InnerNode256",
          node |-> node, lo |-> 0, hi |-> 256]

\* the occupied positions an index scan has not consumed yet
scan_left(it) ==
    {b \in it.lo..(it.hi - 1) :
        IF it.kind = "InnerNode48" THEN it.node.child_indices[b] # EMPTY
        ELSE it.node.child_pointers[b] # NoChild}

InnerNodeIter_next(it) ==
    IF it.kind = "InnerNodeCompressed"
    THEN IF it.lo < it.hi
         THEN [it |-> [it EXCEPT !.lo = @ + 1], child |-> it.node.child_pointers[it.lo]]
         ELSE [it |-> it, child |-> NoChild]
    ELSE LET left == scan_left(it)
         IN  IF left = {} THEN [it |-> [it EXCEPT !.lo = it.hi], child |-> NoChild]
             ELSE [it |-> [it EXCEPT !.lo = MinOf(left) + 1],
                   child |-> child_at(it.node, MinOf(left))]

InnerNodeIter_next_back(it) ==
    IF it.kind = "InnerNodeCompressed"
    THEN IF it.lo < it.hi
         THEN [it |-> [it EXCEPT !.hi = @ - 1], child |-> it.node.child_pointers[it.hi - 1]]
         ELSE [it |-> it, child |-> NoChild]
    ELSE LET left == scan_left(it)
         IN  IF left = {} THEN [it |-> [it EXCEPT !.hi = it.lo], child |-> NoChild]
             ELSE [it |-> [it EXCEPT !.hi = MaxOf(left)],
                   child |-> child_at(it.node, MaxOf(left))]

(***************************************************************************)
(* InnerNodeTreeIterator: a deque of per node iterators                    *)
(***************************************************************************)
update_iters_front_as_back(node_iters, inner) == Append(node_iters, InnerNode_iter(inner))

update_iters_front(node_iters, inner) == <<InnerNode_iter(inner)>> \o node_iters

update_iters_back_as_front(node_iters, inner) == <<InnerNode_iter(inner)>> \o node_iters

update_iters_back(node_iters, inner) == Append(node_iters, InnerNode_iter(inner))

InnerNodeTreeIterator_new(inner) == update_iters_front(<<>>, inner)

\* the deque with its front (back) element replaced
SetFront(node_iters, it) == <<it>> \o Tail(node_iters)

SetBack(node_iters, it) == [node_iters EXCEPT ![Len(node_iters)] = it]

PopBack(node_iters) == SubSeq(node_iters, 1, Len(node_iters) - 1)

RECURSIVE InnerNodeTreeIterator_next(_)
InnerNodeTreeIterator_next(node_iters) ==
    IF node_iters = <<>> THEN [node_iters |-> node_iters, item |-> NoChild]
    ELSE LET r == InnerNodeIter_next(Head(node_iters))
         IN  IF r.child # NoChild
             THEN IF r.child.type = "Leaf"
                  THEN [node_iters |-> SetFront(node_iters, r.it), item |-> r.child]
                  ELSE InnerNodeTreeIterator_next(
                            update_iters_front(SetFront(node_iters, r.it), r.child))
             ELSE InnerNodeTreeIterator_next(Tail(node_iters))

RECURSIVE InnerNodeTreeIterator_next_back(_)
InnerNodeTreeIterator_next_back(node_iters) ==
    IF node_iters = <<>> THEN [node_iters |-> node_iters, item |-> NoChild]
    ELSE LET r == InnerNodeIter_next_back(node_iters[Len(node_iters)])
         IN  IF r.child # NoChild
             THEN IF r.child.type = "Leaf"
                  THEN [node_iters |-> SetBack(node_iters, r.it), item |-> r.child]
                  ELSE InnerNodeTreeIterator_next_back(
                            update_iters_back(SetBack(node_iters, r.it), r.child))
             ELSE InnerNodeTreeIterator_next_back(PopBack(node_iters))

(***************************************************************************)
(* TreeIterator: Singleton(iter::Once) or InnerNode                        *)
(***************************************************************************)
NoIter == [kind |-> "NoIter"]

TreeIterator_new(r) ==
    IF r.type = "Leaf" THEN [kind |-> "Singleton", once |-> r]
    ELSE [kind |-> "InnerNode", node_iters |-> InnerNodeTreeIterator_new(r)]

\* TreeIterator::next over a Once that is never used up
TreeIterator_next_once_kept(t) ==
    IF t.kind = "Singleton"
    THEN [it |-> t, item |-> t.once]
    ELSE LET r == InnerNodeTreeIterator_next(t.node_iters)
         IN  [it |-> [t EXCEPT !.node_iters = r.node_iters], item |-> r.item]

TreeIterator_next(t) ==
    IF t.kind = "Singleton"
    THEN [it |-> [t EXCEPT !.once = NoChild], item |-> t.once]
    ELSE LET r == InnerNodeTreeIterator_next(t.node_iters)
         IN  [it |-> [t EXCEPT !.node_iters = r.node_iters], item |-> r.item]

TreeIterator_next_back(t) ==
    IF t.kind = "Singleton"
    THEN [it |-> [t EXCEPT !.once = NoChild], item |-> t.once]
    ELSE LET r == InnerNodeTreeIterator_next_back(t.node_iters)
         IN  [it |-> [t EXCEPT !.node_iters = r.node_iters], item |-> r.item]

\* the calls one drain may make
MaxDrain == 64

\* next() called until it first returns None, n times at most: the iterator
\* left over, the leaves yielded, and whether None was returned.  The calls
\* are split in two halves, the second half is skipped after a None.
RECURSIVE DrainFront(_, _)
DrainFront(t, n) ==
    IF n = 1
    THEN LET r == TreeIterator_next(t)
         IN  [it |-> r.it,
              items |-> IF r.item = NoChild THEN <<>> ELSE <<r.item>>,
              done |-> r.item = NoChild]
    ELSE LET a == DrainFront(t, n \div 2)
         IN  IF a.done THEN a
             ELSE LET b == DrainFront(a.it, n - n \div 2)
                  IN  [it |-> b.it, items |-> a.items \o b.items, done |-> b.done]

\* the same with next_back()
RECURSIVE DrainBack(_, _)
DrainBack(t, n) ==
    IF n = 1
    THEN LET r == TreeIterator_next_back(t)
         IN  [it |-> r.it,
              items |-> IF r.item = NoChild THEN <<>> ELSE <<r.item>>,
              done |-> r.item = NoChild]
    ELSE LET a == DrainBack(t, n \div 2)
         IN  IF a.done THEN a
             ELSE LET b == DrainBack(a.it, n - n \div 2)
                  IN  [it |-> b.it, items |-> a.items \o b.items, done |-> b.done]

ForwardDrain(r) ==
    IF r = NoRoot THEN [it |-> NoIter, items |-> <<>>, done |-> TRUE]
    ELSE DrainFront(TreeIterator_new(r), MaxDrain)

BackwardDrain(r) ==
    IF r = NoRoot THEN [it |-> NoIter, items |-> <<>>, done |-> TRUE]
    ELSE DrainBack(TreeIterator_new(r), MaxDrain)

ForwardSeq(r) == ForwardDrain(r).items

BackwardSeq(r) == BackwardDrain(r).items

(***************************************************************************)
(* Building tries: tests_common::setup_tree_from_entries                   *)
(***************************************************************************)
\* insert keys[lo..hi] one after the other, each with value 1; the range is
\* halved so that the evaluation nests only logarithmically deep
RECURSIVE setup_tree_from(_, _, _, _)
setup_tree_from(r, keys, lo, hi) ==
    IF lo > hi THEN r
    ELSE IF lo = hi
    THEN LET res == insert(r, keys[lo], 1)
         IN  IF res.res = "PrefixConflict" THEN Panic ELSE res.node   \* unwrap()
    ELSE LET mid == (lo + hi) \div 2
             left == setup_tree_from(r, keys, lo, mid)
         IN  IF left = Panic THEN Panic
             ELSE setup_tree_from(left, keys, mid + 1, hi)

setup_tree_from_entries(keys) == setup_tree_from(NoRoot, keys, 1, Len(keys))

\* n two-byte keys <<1, b>> under one inner node, b = 100, 102, ...,
\* in ascending or in descending order
FanKeys(n, ascending) ==
    [i \in 1..n |-> <<1, 100 + 2 * (IF ascending THEN i - 1 ELSE n - i)>>]

(***************************************************************************)
(* The container under insert and remove                                   *)
(***************************************************************************)
\* the number of operations of one run
MaxOps == 2

Values == {1, 2}

\* the contents an unwritten key byte may have
JunkBytes == {0, 255}

OpKeys ==
    {<<>>, <<1>>, <<1, 5>>, <<1, 5, 7>>, <<1, 100>>, <<1, 101>>,
     <<2, 3, 4, 1>>, <<2, 3, 4, 2>>, <<2, 3, 9>>}

\* the key sequences the run starts from
SeedKeys ==
    {<<>>,
     <<<<1, 5>>>>,
     <<<<1, 100>>, <<1, 5>>>>,
     <<<<2, 3, 4, 1>>, <<2, 3, 4, 2>>, <<1, 5>>>>,
     <<<<2, 3, 4, 6, 1>>, <<2, 3, 9>>, <<2, 3, 4, 6, 2>>>>,
     FanKeys(4, TRUE), FanKeys(16, FALSE), FanKeys(48, FALSE)}

\* the state of the lone node and the lone pointer while the container runs
NoNodeOp == [op |-> "none", key |-> 0, child |-> NoChild, res |-> "none",
             ret |-> NoChild, before |-> NoRoot]

\* no key generator, no header on its own
AloneIdle ==
    /\ keygen = NoRoot
    /\ hdr = NoRoot

NodeIdle ==
    /\ the_node = NoRoot
    /\ shadow = <<>>
    /\ nlast = NoNodeOp
    /\ optr = NoRoot
    /\ AloneIdle

NoOp == [op |-> "none", key |-> <<>>, val |-> 0, res |-> "none", old |-> 0]

NoRt == [active |-> FALSE, key |-> <<>>, before |-> NoRoot, grew256 |-> FALSE,
         done |-> FALSE]

CountType(r, t) == Cardinality({n \in InnerNodes(r) : n.type = t})

Init ==
    /\ \E keys \in SeedKeys :
          /\ root = setup_tree_from_entries(keys)
          /\ cnt = [ins_ok |-> Len(keys), inserted |-> Len(keys),
                    del_calls |-> 0, removed |-> 0, steps |-> 0]
    /\ last = NoOp
    /\ rt = NoRt
    /\ iter = NoIter
    /\ front_out = <<>>
    /\ back_out = <<>>
    /\ pending = {}
    /\ NodeIdle

Insert ==
    \E k \in OpKeys, v \in Values :
        LET r == insert(root, k, v)
        IN  /\ cnt.steps < MaxOps
            /\ root' = r.node
            /\ last' = [op |-> "insert", key |-> k, val |-> v, res |-> r.res,
                        old |-> r.old]
            /\ rt' = IF r.res = "Inserted"
                     THEN [active |-> TRUE, key |-> k, before |-> root,
                           grew256 |-> CountType(r.node, "Node256")
                                            > CountType(root, "Node256"),
                           done |-> FALSE]
                     ELSE NoRt
            /\ cnt' = [cnt EXCEPT
                         !.steps = @ + 1,
                         !.ins_ok = IF r.res # "PrefixConflict" THEN @ + 1 ELSE @,
                         !.inserted = IF r.res = "Inserted" THEN @ + 1 ELSE @]
            /\ UNCHANGED <<iter, front_out, back_out, pending>>
            /\ UNCHANGED nodeVars

Remove ==
    \E k \in OpKeys, junk \in JunkBytes :
        LET r == remove(root, k, junk)
        IN  /\ cnt.steps < MaxOps
            /\ root' = r.node
            /\ last' = [op |-> "remove", key |-> k, val |-> 0,
                        res |-> IF r.found THEN "Removed" ELSE "NotFound",
                        old |-> r.value]
            /\ rt' = IF rt.active /\ ~rt.done /\ rt.key = k /\ r.found
                     THEN [rt EXCEPT !.done = TRUE]
                     ELSE NoRt
            /\ cnt' = [cnt EXCEPT
                         !.steps = @ + 1,
                         !.del_calls = @ + 1,
                         !.removed = IF r.found THEN @ + 1 ELSE @]
            /\ UNCHANGED <<iter, front_out, back_out, pending>>
            /\ UNCHANGED nodeVars

Next == Insert \/ Remove

Spec == Init /\ [][Next]_vars

(***************************************************************************)
(* One tree iterator over an unmodified trie, driven from both ends        *)
(***************************************************************************)
IterSeedKeys ==
    {<<<<1, 2, 3>>>>,
     <<<<2, 3, 4, 2>>, <<1, 5, 9>>, <<3>>, <<2, 3, 9>>, <<1, 100>>, <<2, 3, 4, 1>>,
       <<1, 5, 7>>, <<1, 5, 8>>>>,
     FanKeys(5, TRUE), FanKeys(17, FALSE), FanKeys(49, FALSE)}

InitIter ==
    /\ \E keys \in IterSeedKeys :
          /\ root = setup_tree_from_entries(keys)
          /\ cnt = [ins_ok |-> Len(keys), inserted |-> Len(keys),
                    del_calls |-> 0, removed |-> 0, steps |-> 0]
    /\ last = NoOp
    /\ rt = NoRt
    /\ iter = TreeIterator_new(root)
    /\ front_out = <<>>
    /\ back_out = <<>>
    /\ pending = {}
    /\ NodeIdle

IterNext ==
    LET r == TreeIterator_next(iter)
    IN  /\ iter' = r.it
        /\ front_out' = IF r.item = NoChild THEN front_out ELSE Append(front_out, r.item)
        /\ last' = [NoOp EXCEPT !.op = "next",
                                !.res = IF r.item = NoChild THEN "None" ELSE "Some"]
        /\ UNCHANGED <<root, rt, cnt, back_out, pending>>
        /\ UNCHANGED nodeVars

IterNextBack ==
    LET r == TreeIterator_next_back(iter)
    IN  /\ iter' = r.it
        /\ back_out' = IF r.item = NoChild THEN back_out ELSE Append(back_out, r.item)
        /\ last' = [NoOp EXCEPT !.op = "next_back",
                                !.res = IF r.item = NoChild THEN "None" ELSE "Some"]
        /\ UNCHANGED <<root, rt, cnt, front_out, pending>>
        /\ UNCHANGED nodeVars

NextIter == IterNext \/ IterNextBack

SpecIter == InitIter /\ [][NextIter]_vars

(***************************************************************************)
(* The same keys inserted in every order                                   *)
(***************************************************************************)
PermKeySets ==
    {{<<1, 1>>, <<1, 2>>, <<1, 3>>, <<1, 4>>, <<1, 5>>},
     {<<2, 3, 4, 2>>, <<1, 5, 9>>, <<3>>, <<2, 3, 9>>, <<1, 100>>, <<2, 3, 4, 1>>},
     {<<5, 1>>, <<5, 2, 1>>, <<5, 2, 2>>, <<6>>}}

InitPerm ==
    /\ pending \in PermKeySets
    /\ root = NoRoot
    /\ cnt = [ins_ok |-> 0, inserted |-> 0, del_calls |-> 0, removed |-> 0, steps |-> 0]
    /\ last = NoOp
    /\ rt = NoRt
    /\ iter = NoIter
    /\ front_out = <<>>
    /\ back_out = <<>>
    /\ NodeIdle

\* setup_tree_from_entries takes the entries in the order given
PermInsert ==
    \E k \in pending :
        LET r == insert(root, k, 1)
        IN  /\ root' = r.node
            /\ pending' = pending \ {k}
            /\ last' = [op |-> "insert", key |-> k, val |-> 1, res |-> r.res,
                        old |-> r.old]
            /\ cnt' = [cnt EXCEPT
                         !.ins_ok = IF r.res # "PrefixConflict" THEN @ + 1 ELSE @,
                         !.inserted = IF r.res = "Inserted" THEN @ + 1 ELSE @]
            /\ UNCHANGED <<rt, iter, front_out, back_out>>
            /\ UNCHANGED nodeVars

NextPerm == PermInsert

SpecPerm == InitPerm /\ [][NextPerm]_vars

(***************************************************************************)
(* One inner node on its own under write_child, remove_child, grow and     *)
(* shrink                                                                  *)
(***************************************************************************)
\* the number of operations applied to the node
MaxNodeOps == 2

\* the key bytes the operations use
NodeOpBytes == {0, 3, 4, 31, 95, 255}

\* the child pointer written for key byte b under a node with the given
\* prefix: a leaf whose key is the prefix and b, with one of two values
NodeChild(prefix, b, v) == LeafNode_new(prefix \o <<b>>, v)

empty_node(t) ==
    CASE t \in {"Node4", "Node16"} -> InnerNodeCompressed_empty(t)
      [] t = "Node48" -> InnerNode48_empty
      [] t = "Node256" -> InnerNode256_empty

\* bytes[lo..hi] written in order with write_child; Panic and UB stop it
RECURSIVE write_all(_, _, _, _)
write_all(n, bytes, lo, hi) ==
    IF ~IsInner(n) \/ lo > hi THEN n
    ELSE IF lo = hi THEN write_child(n, bytes[lo],
                                     NodeChild(read_prefix(n.header), bytes[lo], 1))
    ELSE LET mid == (lo + hi) \div 2
             left == write_all(n, bytes, lo, mid)
         IN  IF IsInner(left) THEN write_all(left, bytes, mid + 1, hi) ELSE left

\* count key bytes start, start + step, ..., upwards or downwards
ByteRun(count, start, step, ascending) ==
    [i \in 1..count |->
        IF ascending THEN start + step * (i - 1) ELSE start + step * (count - i)]

\* the write sequences the node is built with before the run
NodeSeeds ==
    {[type |-> "Node4", bytes |-> <<>>],
     [type |-> "Node4", bytes |-> <<7, 3>>],
     [type |-> "Node4", bytes |-> ByteRun(3, 1, 2, TRUE)],
     [type |-> "Node4", bytes |-> ByteRun(4, 1, 2, FALSE)],
     [type |-> "Node16", bytes |-> <<>>],
     [type |-> "Node16", bytes |-> ByteRun(4, 1, 2, FALSE)],
     [type |-> "Node16", bytes |-> ByteRun(5, 1, 2, TRUE)],
     [type |-> "Node16", bytes |-> ByteRun(15, 1, 2, FALSE)],
     [type |-> "Node16", bytes |-> ByteRun(16, 1, 2, FALSE)],
     [type |-> "Node48", bytes |-> <<>>],
     [type |-> "Node48", bytes |-> <<130>>],
     [type |-> "Node48", bytes |-> ByteRun(16, 1, 2, FALSE)],
     [type |-> "Node48", bytes |-> ByteRun(16, 1, 2, TRUE)],
     [type |-> "Node48", bytes |-> ByteRun(17, 1, 2, FALSE)],
     [type |-> "Node48", bytes |-> ByteRun(47, 1, 2, FALSE)],
     [type |-> "Node48", bytes |-> ByteRun(48, 1, 2, FALSE)],
     [type |-> "Node256", bytes |-> <<>>],
     [type |-> "Node256", bytes |-> ByteRun(48, 1, 2, FALSE)],
     [type |-> "Node256", bytes |-> ByteRun(49, 1, 2, TRUE)],
     [type |-> "Node256", bytes |-> ByteRun(255, 0, 1, TRUE)],
     [type |-> "Node256", bytes |-> ByteRun(256, 0, 1, FALSE)]}

\* the compressed prefix the node is given before the writes
NodePrefixes == {<<>>, <<9, 8>>}

\* the children written so far, by key byte
shadow_of(prefix, bytes) ==
    [b \in Byte |->
        IF \E i \in DOMAIN bytes : bytes[i] = b THEN NodeChild(prefix, b, 1)
        ELSE NoChild]

InitNode ==
    /\ \E seed \in NodeSeeds, prefix \in NodePrefixes :
          /\ the_node = write_all([empty_node(seed.type) EXCEPT
                                      !.header = extend_prefix(@, prefix)],
                                  seed.bytes, 1, Len(seed.bytes))
          /\ shadow = shadow_of(prefix, seed.bytes)
    /\ nlast = [NoNodeOp EXCEPT !.res = "ok"]
    /\ AloneIdle
    /\ cnt = [ins_ok |-> 0, inserted |-> 0, del_calls |-> 0, removed |-> 0, steps |-> 0]
    /\ optr = NoRoot
    /\ root = NoRoot
    /\ last = NoOp
    /\ rt = NoRt
    /\ iter = NoIter
    /\ front_out = <<>>
    /\ back_out = <<>>
    /\ pending = {}

\* the node can take another operation: nothing panicked, nothing undefined
NodeRunning == IsInner(the_node) /\ nlast.res = "ok" /\ cnt.steps < MaxNodeOps

\* What a build can make of the out of bounds write of write_child_inner: a
\* checked access panics; an unchecked one leaves the node with num_children
\* past its capacity and its arrays as they were, the bytes landing outside
\* them.
write_child_outcomes(n, w) ==
    IF w = UB THEN {Panic, [n EXCEPT !.header.num_children = @ + 1]} ELSE {w}

NodeWriteChild ==
    \E b \in NodeOpBytes, v \in Values :
        LET child == NodeChild(read_prefix(the_node.header), b, v)
            w == write_child(the_node, b, child)
        IN  /\ NodeRunning
            /\ \E out \in write_child_outcomes(the_node, w) : the_node' = out
            /\ shadow' = IF IsInner(w) THEN [shadow EXCEPT ![b] = child] ELSE shadow
            /\ nlast' = [op |-> "write_child", key |-> b, child |-> child,
                         res |-> IF w = UB THEN "ub"
                                 ELSE IF w = Panic THEN "panic" ELSE "ok",
                         ret |-> NoChild, before |-> the_node]
            /\ cnt' = [cnt EXCEPT !.steps = @ + 1]
            /\ UNCHANGED <<root, last, rt, iter, front_out, back_out, pending, optr, aloneVars>>

NodeRemoveChild ==
    \E b \in NodeOpBytes :
        LET r == remove_child(the_node, b)
        IN  /\ NodeRunning
            /\ the_node' = r.node
            /\ shadow' = [shadow EXCEPT ![b] = NoChild]
            /\ nlast' = [op |-> "remove_child", key |-> b, child |-> NoChild,
                         res |-> "ok", ret |-> r.removed, before |-> the_node]
            /\ cnt' = [cnt EXCEPT !.steps = @ + 1]
            /\ UNCHANGED <<root, last, rt, iter, front_out, back_out, pending, optr, aloneVars>>

NodeGrow ==
    LET g == grow(the_node)
    IN  /\ NodeRunning
        /\ the_node' = g
        /\ nlast' = [op |-> "grow", key |-> 0, child |-> NoChild,
                     res |-> IF g = Panic THEN "panic" ELSE "ok",
                     ret |-> NoChild, before |-> the_node]
        /\ cnt' = [cnt EXCEPT !.steps = @ + 1]
        /\ UNCHANGED <<root, last, rt, iter, front_out, back_out, pending, optr, aloneVars,
                       shadow>>

NodeShrink ==
    \E junk \in JunkBytes :
        LET s == shrink(the_node, junk)
        IN  /\ NodeRunning
            /\ the_node' = s
            /\ nlast' = [op |-> "shrink", key |-> 0, child |-> NoChild,
                         res |-> IF s = Panic THEN "panic" ELSE "ok",
                         ret |-> NoChild, before |-> the_node]
            /\ cnt' = [cnt EXCEPT !.steps = @ + 1]
            /\ UNCHANGED <<root, last, rt, iter, front_out, back_out, pending, optr, aloneVars,
                           shadow>>

NextNode == NodeWriteChild \/ NodeRemoveChild \/ NodeGrow \/ NodeShrink

SpecNode == InitNode /\ [][NextNode]_vars

(***************************************************************************)
(* OpaqueNodePtr: a node pointer with the node class in its low bits       *)
(***************************************************************************)
\* the five implementations of Node
NodeClasses == {"Node4", "Node16", "Node48", "Node256", "Leaf"}

\* N::TYPE as usize, the discriminants of the repr(u8) enum NodeType
NodeTypeTag(t) ==
    CASE t = "Node4" -> 0
      [] t = "Node16" -> 1
      [] t = "Node48" -> 2
      [] t = "Node256" -> 3
      [] t = "Leaf" -> 4

\* NodeType::from_u8 is a transmute: a value that is no discriminant is
\* undefined behaviour.  A NodeType value is held as [type |-> class].
from_u8(src) ==
    IF \E t \in NodeClasses : NodeTypeTag(t) = src
    THEN [type |-> CHOOSE t \in NodeClasses : NodeTypeTag(t) = src]
    ELSE UB

\* TaggedPointer<_, 3>: a word holding an address aligned to 8 with three
\* bits of data below it
TAG_BITS == 3

TagModulus == 2 ^ TAG_BITS

TaggedPointer_from(addr) == addr

TaggedPointer_set_data(p, data) == (p - (p % TagModulus)) + (data % TagModulus)

TaggedPointer_to_data(p) == p % TagModulus

TaggedPointer_to_ptr(p) == p - (p % TagModulus)

\* NodePtr<N>: a typed pointer
NodePtr(t, addr) == [class |-> t, addr |-> addr]

OpaqueNodePtr_new(pointer) ==
    TaggedPointer_set_data(TaggedPointer_from(pointer.addr), NodeTypeTag(pointer.class))

\* is::<N> comparing two bits of the data only
OpaqueNodePtr_is_two_bits(p, t) ==
    TaggedPointer_to_data(p) % 4 = NodeTypeTag(t) % 4

OpaqueNodePtr_is(p, t) == TaggedPointer_to_data(p) = NodeTypeTag(t)

OpaqueNodePtr_cast(p, t) ==
    IF OpaqueNodePtr_is(p, t) THEN NodePtr(t, TaggedPointer_to_ptr(p)) ELSE NoChild

OpaqueNodePtr_node_type(p) == from_u8(TaggedPointer_to_data(p) % 256)

\* ConcreteNodePtr: the variant and the typed pointer in it
OpaqueNodePtr_to_node_ptr(p) ==
    LET t == OpaqueNodePtr_node_type(p)
    IN  IF t = UB THEN UB
        ELSE [variant |-> t.type, ptr |-> NodePtr(t.type, TaggedPointer_to_ptr(p))]

\* the number of node addresses tried
MaxAddrs == 8

\* node addresses: every node type has an alignment of 8
NodeAddrs == {8 * k : k \in 1..MaxAddrs} \cup {4096 + 8 * k : k \in 1..MaxAddrs}

NoPtr == [typed |-> NoChild, word |-> 0, op |-> "none", arg |-> "none",
          res |-> NoChild]

InitPtr ==
    /\ optr = NoPtr
    /\ AloneIdle
    /\ the_node = NoRoot
    /\ shadow = <<>>
    /\ nlast = NoNodeOp
    /\ cnt = [ins_ok |-> 0, inserted |-> 0, del_calls |-> 0, removed |-> 0, steps |-> 0]
    /\ root = NoRoot
    /\ last = NoOp
    /\ rt = NoRt
    /\ iter = NoIter
    /\ front_out = <<>>
    /\ back_out = <<>>
    /\ pending = {}

PtrNew ==
    \E t \in NodeClasses, addr \in NodeAddrs :
        /\ optr' = [typed |-> NodePtr(t, addr),
                    word |-> OpaqueNodePtr_new(NodePtr(t, addr)),
                    op |-> "new", arg |-> t, res |-> NoChild]
        /\ UNCHANGED <<trieVars, the_node, shadow, nlast, aloneVars>>

PtrCast ==
    \E t \in NodeClasses :
        /\ optr.typed # NoChild
        /\ optr' = [optr EXCEPT !.op = "cast", !.arg = t,
                                !.res = OpaqueNodePtr_cast(optr.word, t)]
        /\ UNCHANGED <<trieVars, the_node, shadow, nlast, aloneVars>>

PtrNodeType ==
    /\ optr.typed # NoChild
    /\ optr' = [optr EXCEPT !.op = "node_type", !.arg = "none",
                            !.res = OpaqueNodePtr_node_type(optr.word)]
    /\ UNCHANGED <<trieVars, the_node, shadow, nlast, aloneVars>>

PtrToNodePtr ==
    /\ optr.typed # NoChild
    /\ optr' = [optr EXCEPT !.op = "to_node_ptr", !.arg = "none",
                            !.res = OpaqueNodePtr_to_node_ptr(optr.word)]
    /\ UNCHANGED <<trieVars, the_node, shadow, nlast, aloneVars>>

NextPtr == PtrNew \/ PtrCast \/ PtrNodeType \/ PtrToNodePtr

SpecPtr == InitPtr /\ [][NextPtr]_vars

(***************************************************************************)
(* generate_key_fixed_length: the keys of a fixed length, digit by digit   *)
(***************************************************************************)
U8_MAX == 255

\* div_ceil of FixedLengthKeys::new, on u8
div_ceil(lhs, rhs) ==
    LET d == lhs \div rhs
        r == lhs % rhs
    IN  IF r > 0 /\ rhs > 0 THEN d + 1 ELSE d

\* u8::saturating_add
saturating_add(a, b) == IF a + b > U8_MAX THEN U8_MAX ELSE a + b

\* An Option<Box<[u8]>> is held as a sequence of at most one key.
FixedLengthKeys_new(level_widths) ==
    IF Len(level_widths) = 0 \/ \E i \in DOMAIN level_widths : level_widths[i] = 0
    THEN Panic
    ELSE [increments |-> [i \in DOMAIN level_widths |-> div_ceil(U8_MAX, level_widths[i])],
          next_value |-> <<[i \in DOMAIN level_widths |-> 0]>>]

\* the loop of FixedLengthKeys::next over idx = len - 1 down to 0 (here
\* idx down to 1): a digit at u8::MAX wraps to u8::MIN and the loop goes on,
\* any other digit is stepped and the loop breaks
RECURSIVE step_digits(_, _, _)
step_digits(value, increments, idx) ==
    IF idx = 0 THEN value
    ELSE IF value[idx] = U8_MAX
         THEN step_digits([value EXCEPT ![idx] = 0], increments, idx - 1)
         ELSE [value EXCEPT ![idx] = saturating_add(@, increments[idx])]

FixedLengthKeys_next(g) ==
    IF g.next_value = <<>> THEN [g |-> g, item |-> <<>>]
    ELSE LET next_value == g.next_value[1]
         IN  IF \A i \in DOMAIN next_value : next_value[i] = U8_MAX
             THEN [g |-> [g EXCEPT !.next_value = <<>>], item |-> <<next_value>>]
             ELSE [g |-> [g EXCEPT !.next_value =
                                <<step_digits(next_value, g.increments, Len(next_value))>>],
                   item |-> <<next_value>>]

\* the arrays of level widths tried
KeyWidths ==
    {<<1>>, <<2>>, <<3>>, <<16>>, <<17>>, <<18>>, <<100>>, <<254>>, <<255>>,
     <<3, 2, 1>>, <<1, 1, 1>>, <<2, 18>>, <<18, 1>>, <<5, 7>>}

InitKeys ==
    /\ \E level_widths \in KeyWidths :
          keygen = [level_widths |-> level_widths,
                    gen |-> FixedLengthKeys_new(level_widths),
                    item |-> <<>>,
                    produced |-> 0]
    /\ hdr = NoRoot
    /\ the_node = NoRoot
    /\ shadow = <<>>
    /\ nlast = NoNodeOp
    /\ optr = NoRoot
    /\ cnt = [ins_ok |-> 0, inserted |-> 0, del_calls |-> 0, removed |-> 0, steps |-> 0]
    /\ root = NoRoot
    /\ last = NoOp
    /\ rt = NoRt
    /\ iter = NoIter
    /\ front_out = <<>>
    /\ back_out = <<>>
    /\ pending = {}

\* one call of next() on the iterator, counting the keys it returns
KeysNext ==
    LET r == FixedLengthKeys_next(keygen.gen)
    IN  /\ keygen' = [keygen EXCEPT !.gen = r.g,
                                    !.item = r.item,
                                    !.produced = IF r.item = <<>> THEN @ ELSE @ + 1]
        /\ UNCHANGED <<trieVars, the_node, shadow, nlast, optr, hdr>>

NextKeys == KeysNext

SpecKeys == InitKeys /\ [][NextKeys]_vars

(***************************************************************************)
(* A header on its own: edits of the prefix and matches against keys       *)
(***************************************************************************)
MaxHdrOps == 2

\* the prefixes of the header at the start: empty, short, one byte below the
\* inline capacity, at it, above it
HeaderPrefixes ==
    {<<>>, <<5>>, <<1, 2, 3>>,
     [i \in 1..(NUM_PREFIX_BYTES - 1) |-> i],
     [i \in 1..NUM_PREFIX_BYTES |-> 2 * i],
     [i \in 1..(NUM_PREFIX_BYTES + 2) |-> 7]}

\* the byte strings given to prepend_prefix
HeaderBytes ==
    {<<>>, <<7>>, <<1, 2>>, <<3, 3, 3>>,
     [i \in 1..NUM_PREFIX_BYTES |-> 100 + i],
     [i \in 1..(NUM_PREFIX_BYTES + 1) |-> 200 + i]}

\* the counts given to ltrim_prefix
HeaderTrims == {0, 1, 2, 3, NUM_PREFIX_BYTES, NUM_PREFIX_BYTES + 1}

\* the keys matched against a prefix: the prefix, the prefix extended or cut
\* short, the prefix with its first, a middle or its last byte changed,
\* and keys unrelated to it
HeaderKeys(prefix) ==
    LET n == Len(prefix)
        changed(i) == [prefix EXCEPT ![i] = (@ + 1) % 256]
    IN  {<<>>, <<1, 2>>, <<1, 2, 3, 4>>, prefix, prefix \o <<0>>}
        \cup (IF n = 0 THEN {}
              ELSE {Take(prefix, n - 1), changed(1), changed(n), changed((n + 1) \div 2),
                    changed(1) \o <<9>>})

\* TinyVec<[u8; NUM_PREFIX_BYTES]>: the variant holding a prefix of the
\* given length that has been built in place
variant_for(len) == IF len > NUM_PREFIX_BYTES THEN "Heap" ELSE "Inline"

NoHdrOp == [op |-> "none", bytes |-> <<>>, n |-> 0, res |-> 0, before |-> empty_header]

InitHeader ==
    /\ \E prefix \in HeaderPrefixes :
          hdr = [header |-> extend_prefix(empty_header, prefix),
                 variant |-> variant_for(Len(prefix)),
                 last |-> NoHdrOp,
                 steps |-> 0]
    /\ keygen = NoRoot
    /\ the_node = NoRoot
    /\ shadow = <<>>
    /\ nlast = NoNodeOp
    /\ optr = NoRoot
    /\ cnt = [ins_ok |-> 0, inserted |-> 0, del_calls |-> 0, removed |-> 0, steps |-> 0]
    /\ root = NoRoot
    /\ last = NoOp
    /\ rt = NoRt
    /\ iter = NoIter
    /\ front_out = <<>>
    /\ back_out = <<>>
    /\ pending = {}

HeaderRunning == hdr.header # Panic /\ hdr.steps < MaxHdrOps

HdrPrependPrefix ==
    /\ HeaderRunning
    /\ \E new_bytes \in HeaderBytes :
        LET h == prepend_prefix(hdr.header, new_bytes)
        IN  /\ hdr' = [header |-> h,
                       variant |-> IF hdr.variant = "Heap" THEN "Heap"
                                   ELSE variant_for(prefix_size(h)),
                       last |-> [op |-> "prepend_prefix", bytes |-> new_bytes,
                                 n |-> Len(new_bytes), res |-> 0, before |-> hdr.header],
                       steps |-> hdr.steps + 1]
            /\ UNCHANGED <<trieVars, the_node, shadow, nlast, optr, keygen>>

\* both arms of the match drain the first num_bytes bytes; the variant stays
HdrLtrimPrefix ==
    /\ HeaderRunning
    /\ \E num_bytes \in HeaderTrims :
        LET h == ltrim_prefix(hdr.header, num_bytes)
        IN  /\ hdr' = [hdr EXCEPT
                          !.header = h,
                          !.last = [op |-> "ltrim_prefix", bytes |-> <<>>, n |-> num_bytes,
                                    res |-> 0, before |-> hdr.header],
                          !.steps = @ + 1]
            /\ UNCHANGED <<trieVars, the_node, shadow, nlast, optr, keygen>>

HdrMatchPrefix ==
    /\ HeaderRunning
    /\ \E possible_key \in HeaderKeys(read_prefix(hdr.header)) :
        /\ hdr' = [hdr EXCEPT
                      !.last = [op |-> "match_prefix", bytes |-> possible_key,
                                n |-> 0, res |-> match_prefix(hdr.header, possible_key),
                                before |-> hdr.header],
                      !.steps = @ + 1]
        /\ UNCHANGED <<trieVars, the_node, shadow, nlast, optr, keygen>>

NextHeader == HdrPrependPrefix \/ HdrLtrimPrefix \/ HdrMatchPrefix

SpecHeader == InitHeader /\ [][NextHeader]_vars

(***************************************************************************)
(* Properties                                                              *)
(***************************************************************************)
Reverse(s) == [i \in 1..Len(s) |-> s[Len(s) + 1 - i]]

\* keys next to the stored ones: one byte changed at any position (inside a
\* compressed prefix, at a child byte, in the part only the leaf holds), the
\* last byte dropped, a byte added
Probes(r) ==
    OpKeys \cup
    UNION {{[k EXCEPT ![i] = (@ + 1) % 256] : i \in 1..Len(k)}
              \cup {Take(k, Len(k) - 1), k \o <<0>>} : k \in StoredKeys(r)}

\* C1: search returns the stored leaf for every stored key and not-found
\* for every other key, also for a key that differs from a stored one in a
\* single byte of a compressed prefix or in a child byte.
C1_SearchExact ==
    /\ \A l \in LeafSet(root) : search(root, l.key) = l
    /\ \A k \in Probes(root) \ StoredKeys(root) : search(root, k) = NotFound

\* after an operation, an inner root with a compressed prefix: one stored
\* key is probed with its first byte (prefix) and its child byte changed
C1_Witness ==
    /\ cnt.steps > 0
    /\ IsInner(root)
    /\ prefix_size(root.header) > 0
    /\ \E k \in StoredKeys(root) :
          LET p == [k EXCEPT ![1] = (@ + 1) % 256]
              q == [k EXCEPT ![prefix_size(root.header) + 1] = (@ + 1) % 256]
          IN  /\ search(root, k).key = k
              /\ p \notin StoredKeys(root) /\ search(root, p) = NotFound
              /\ q \notin StoredKeys(root) /\ search(root, q) = NotFound

\* C2: after a successful Insert(k, v), Search(k) yields v; an Insert on a
\* key already stored returns the old value and leaves the number of leaves
\* unchanged.
C2_InsertThenSearch ==
    [][(last'.op = "insert" /\ last'.res # "PrefixConflict") =>
          /\ search(root', last'.key) = LeafNode_new(last'.key, last'.val)
          /\ search(root, last'.key) # NotFound =>
                /\ last'.res = "Replaced"
                /\ last'.old = search(root, last'.key).value
                /\ NumLeaves(root') = NumLeaves(root)]_vars

\* the second Insert of a key, with another value, below an inner node
C2_Witness ==
    /\ last.op = "insert"
    /\ last.res = "Replaced"
    /\ last.old # last.val
    /\ IsInner(root)
    /\ search(root, last.key).value = last.val

ConflictsWithStored(r, key) ==
    \E s \in StoredKeys(r) : IsStrictPrefixOf(key, s) \/ IsStrictPrefixOf(s, key)

\* C3: an Insert of a key that is a strict prefix of a stored key, or that
\* has a stored key as a strict prefix, fails with prefix-conflict and
\* leaves the trie exactly as it was.
C3_PrefixConflictNoChange ==
    [][(last'.op = "insert" /\ ConflictsWithStored(root, last'.key)) =>
          /\ last'.res = "PrefixConflict"
          /\ root' = root]_vars

\* a refused Insert whose key extends a stored key
C3_Witness ==
    /\ last.op = "insert"
    /\ last.res = "PrefixConflict"
    /\ IsInner(root)
    /\ \E s \in StoredKeys(root) : IsStrictPrefixOf(s, last.key)

\* The layout with the bytes that carry no information blanked: key bytes
\* and child slots past num_children.
RECURSIVE Canon(_)
Canon(node) ==
    CASE node.type \in {"Node4", "Node16"} ->
            [node EXCEPT
                !.keys = [i \in DOMAIN @ |->
                            IF i < node.header.num_children THEN @[i] ELSE 0],
                !.child_pointers = [i \in DOMAIN @ |->
                            IF i < node.header.num_children THEN Canon(@[i]) ELSE Uninit]]
      [] node.type = "Node48" ->
            [node EXCEPT
                !.child_pointers = [i \in DOMAIN @ |->
                            IF i < node.header.num_children THEN Canon(@[i]) ELSE Uninit]]
      [] node.type = "Node256" ->
            [node EXCEPT
                !.child_pointers = [b \in DOMAIN @ |->
                            IF @[b] = NoChild THEN NoChild ELSE Canon(@[b])]]
      [] OTHER -> node

\* Canon with the slots of every Node48 renumbered in ascending key order:
\* what is left is the key byte to child mapping
RECURSIVE CanonSlots(_)
CanonSlots(node) ==
    CASE node.type \in {"Node4", "Node16"} ->
            [node EXCEPT
                !.keys = [i \in DOMAIN @ |->
                            IF i < node.header.num_children THEN @[i] ELSE 0],
                !.child_pointers = [i \in DOMAIN @ |->
                            IF i < node.header.num_children THEN CanonSlots(@[i])
                            ELSE Uninit]]
      [] node.type = "Node48" ->
            LET ks == InnerNode48_keys(node)
            IN  [node EXCEPT
                    !.child_indices = [b \in DOMAIN @ |->
                            IF b \in ks THEN RankIn(ks, b) ELSE EMPTY],
                    !.child_pointers = [i \in DOMAIN @ |->
                            IF i < node.header.num_children
                            THEN CanonSlots(child_at(node, AtRank(ks, i)))
                            ELSE Uninit]]
      [] node.type = "Node256" ->
            [node EXCEPT
                !.child_pointers = [b \in DOMAIN @ |->
                            IF @[b] = NoChild THEN NoChild ELSE CanonSlots(@[b])]]
      [] OTHER -> node

\* C4 as stated: after Insert(k, v) of an absent key and Delete(k), Search(k)
\* is not-found and the trie has the layout it had before the insert, the
\* Node48 slot assignments included.
C4_RoundTripSameLayout ==
    rt.done =>
        /\ search(root, rt.key) = NotFound
        /\ Canon(root) = Canon(rt.before)

\* C4 amended: after Insert(k, v) of an absent key and Delete(k), Search(k)
\* is not-found and the trie has the node classes, prefixes, key arrays and
\* key byte to child mapping it had before; the Node48 slot assignments are
\* the same too unless the insert grew a Node48 into a Node256, in which
\* case the shrink numbers the slots in ascending key order.
C4_RoundTripSameMapping ==
    rt.done =>
        /\ search(root, rt.key) = NotFound
        /\ CanonSlots(root) = CanonSlots(rt.before)
        /\ ~rt.grew256 => Canon(root) = Canon(rt.before)

\* an insert that grew a Node48 into a Node256, undone by the delete
C4_Witness ==
    /\ rt.done
    /\ rt.grew256
    /\ CountType(root, "Node48") = CountType(rt.before, "Node48")

StrictlyAscending(leaves) ==
    \A i \in 1..(Len(leaves) - 1) : LexLess(leaves[i].key, leaves[i + 1].key)

\* C5: forward iteration yields every leaf exactly once in strictly
\* ascending key order, and iteration with next_back only yields the exact
\* reverse of that sequence.
C5_ForwardAscendingBackwardReverse ==
    LET fd == ForwardDrain(root)
        bd == BackwardDrain(root)
        fwd == fd.items
        bwd == bd.items
    IN  /\ fd.done /\ bd.done
        /\ Len(fwd) = NumLeaves(root)
        /\ {fwd[i] : i \in 1..Len(fwd)} = LeafSet(root)
        /\ StrictlyAscending(fwd)
        /\ bwd = Reverse(fwd)

\* a trie of several levels after an insert and a delete
C5_Witness ==
    /\ cnt.removed > 0
    /\ last.res = "Inserted"
    /\ Len(ForwardSeq(root)) >= 3
    /\ \E n \in InnerNodes(root) : n # root

Yielded == {front_out[i] : i \in 1..Len(front_out)} \cup {back_out[i] : i \in 1..Len(back_out)}

\* C6: for any interleaving of next() and next_back() on one iterator, no
\* leaf is yielded twice, none is skipped, the front leaves ascend, the back
\* leaves descend, and every front leaf is less than every back leaf.
C6_DoubleEnded ==
    /\ Len(front_out) + Len(back_out) = Cardinality(Yielded)
    /\ Yielded \subseteq LeafSet(root)
    /\ StrictlyAscending(front_out)
    /\ StrictlyAscending(Reverse(back_out))
    /\ \A i \in 1..Len(front_out), j \in 1..Len(back_out) :
          LexLess(front_out[i].key, back_out[j].key)
    /\ \A l \in LeafSet(root) \ Yielded :
          /\ front_out # <<>> => LexLess(front_out[Len(front_out)].key, l.key)
          /\ back_out # <<>> => LexLess(l.key, back_out[Len(back_out)].key)
    /\ last.res = "None" => Yielded = LeafSet(root)

\* both cursors in one inner node below the root, each end having consumed
\* some of its children
C6_Witness ==
    /\ iter.kind = "InnerNode"
    /\ Len(iter.node_iters) = 1
    /\ iter.node_iters[1].node # root
    /\ iter.node_iters[1].lo > 0
    /\ iter.node_iters[1].hi < iter.node_iters[1].node.header.num_children
    /\ iter.node_iters[1].lo < iter.node_iters[1].hi
    /\ front_out # <<>>
    /\ back_out # <<>>

C8_PathEqualsKey ==
    \A lp \in LeafPaths(root, <<>>) : lp.path = lp.leaf.key

\* C8 amended: for every leaf the prefixes and key bytes along the path
\* from the root, concatenated, are a prefix of the key of the leaf; the
\* rest of the key is held by the leaf alone.
C8_PathPrefixOfKey ==
    \A lp \in LeafPaths(root, <<>>) : IsPrefixOf(lp.path, lp.leaf.key)

\* after a delete that collapsed a node, a leaf two levels down whose key
\* is longer than its path
C8_Witness ==
    /\ last.res = "Removed"
    /\ \E lp \in LeafPaths(root, <<>>) :
          /\ Len(lp.path) >= 2
          /\ Len(lp.path) < Len(lp.leaf.key)

\* the child counts a node of each class may have
ChildCountRange(t) ==
    CASE t = "Node4" -> 2..4
      [] t = "Node16" -> 5..16
      [] t = "Node48" -> 17..48
      [] t = "Node256" -> 49..256

\* C9: after every insert and delete, every inner node has a child count
\* within the range of its class: [2,4], [5,16], [17,48], [49,256].
C9_ChildCountInRange ==
    /\ root.type # "Panic"
    /\ \A n \in InnerNodes(root) : n.header.num_children \in ChildCountRange(n.type)

\* an insert grew a Node4 with four children into a Node16 and the delete
\* of the same key has just shrunk it back
C9_Witness ==
    /\ rt.done
    /\ rt.before.type = "Node4"
    /\ rt.before.header.num_children = 4
    /\ IsPrefixOf(read_prefix(rt.before.header), rt.key)
    /\ root.type = "Node4"
    /\ root.header.num_children = 4

RECURSIVE AscendingKeys(_)
AscendingKeys(S) ==
    IF S = {} THEN <<>>
    ELSE LET m == CHOOSE k \in S : \A o \in S \ {k} : LexLess(k, o)
         IN  <<m>> \o AscendingKeys(S \ {m})

\* C10: whatever the order in which the keys of a prefix-free set are
\* inserted, forward iteration over the resulting trie yields the same
\* sequence of leaves.
C10_OrderIndependent ==
    pending = {} =>
        \A K \in PermKeySets :
            last.key \in K =>
                ForwardSeq(root) = ForwardSeq(setup_tree_from_entries(AscendingKeys(K)))

\* all keys inserted, the smallest one last, the root grown to a Node16
C10_Witness ==
    /\ pending = {}
    /\ cnt.inserted = 5
    /\ root.type = "Node16"
    /\ last.key = <<1, 1>>
(***************************************************************************)
(* The lone inner node                                                     *)
(***************************************************************************)
\* the node is a node and its last operation returned normally
NodeIntact == IsInner(the_node) /\ nlast.res = "ok"

\* C11: in a Node4 or Node16 built from the empty node by write_child and
\* remove_child within its capacity, the first num_children key bytes are
\* strictly ascending and the child at position i is the child written for
\* the key byte at position i.
C11_CompressedSortedAligned ==
    (NodeIntact /\ the_node.type \in {"Node4", "Node16"}) =>
        LET n == the_node.header.num_children
        IN  /\ n <= upper_capacity(the_node.type)
            /\ \A i \in 0..(n - 1) :
                  /\ (i + 1 < n => the_node.keys[i] < the_node.keys[i + 1])
                  /\ the_node.child_pointers[i] = shadow[the_node.keys[i]]
            /\ Cardinality({b \in Byte : shadow[b] # NoChild}) = n

\* a Node16 that lost a child below its largest key byte and then got a new
\* one below it
C11_Witness ==
    /\ NodeIntact
    /\ the_node.type = "Node16"
    /\ cnt.steps = 2
    /\ nlast.op = "write_child"
    /\ nlast.before.header.num_children \in 4..14
    /\ the_node.header.num_children = nlast.before.header.num_children + 1
    /\ nlast.key < the_node.keys[the_node.header.num_children - 1]
    /\ Cardinality({b \in NodeOpBytes : shadow[b] # NoChild}) >= 2

\* C12: in a Node48 built from the empty node by write_child and
\* remove_child with at most 48 children, every non-empty index entry is
\* below num_children, distinct non-empty entries hold distinct slots, and
\* the number of non-empty entries is num_children.
C12_Node48IndexTable ==
    (NodeIntact /\ the_node.type = "Node48") =>
        LET n == the_node.header.num_children
            ks == {b \in Byte : the_node.child_indices[b] # EMPTY}
        IN  /\ \A b \in ks : the_node.child_indices[b] \in 0..(n - 1)
            /\ \A a, b \in ks :
                  a # b => the_node.child_indices[a] # the_node.child_indices[b]
            /\ Cardinality(ks) = n

\* a Node48 that had a child removed from a slot below its last used slot
C12_Witness ==
    /\ NodeIntact
    /\ the_node.type = "Node48"
    /\ nlast.op = "remove_child"
    /\ nlast.ret # NoChild
    /\ nlast.before.type = "Node48"
    /\ nlast.before.child_indices[nlast.key] < nlast.before.header.num_children - 1
    /\ the_node.header.num_children >= 15
    /\ cnt.steps = 2

\* C13: in every node class, write_child(b, p) with b already present
\* replaces the child of b: num_children is unchanged, every other key byte
\* maps to the same child as before, and lookup_child(b) is p.
C13_OverwriteExisting ==
    (nlast.op = "write_child" /\ lookup_child(nlast.before, nlast.key) # NoChild) =>
        /\ NodeIntact
        /\ the_node.type = nlast.before.type
        /\ the_node.header = nlast.before.header
        /\ lookup_child(the_node, nlast.key) = nlast.child
        /\ \A b \in Byte \ {nlast.key} :
              lookup_child(the_node, b) = lookup_child(nlast.before, b)

\* each class had the child of a present key byte replaced by another child
C13_Witness ==
    /\ nlast.op = "write_child"
    /\ the_node.type = "Node48"
    /\ lookup_child(nlast.before, nlast.key) \notin {NoChild, nlast.child}
    /\ nlast.before.header.num_children \in 2..47

C13_WitnessCompressed ==
    /\ nlast.op = "write_child"
    /\ the_node.type \in {"Node4", "Node16"}
    /\ lookup_child(nlast.before, nlast.key) \notin {NoChild, nlast.child}
    /\ nlast.before.header.num_children >= 2

C13_Witness256 ==
    /\ nlast.op = "write_child"
    /\ the_node.type = "Node256"
    /\ lookup_child(nlast.before, nlast.key) \notin {NoChild, nlast.child}
    /\ nlast.before.header.num_children >= 2

\* C14: in every node class, remove_child(b) with b present returns the
\* child of b, after which lookup_child(b) is none, num_children is one less
\* and every other key byte maps to the same child; with b absent it returns
\* None and leaves the node unchanged.
C14_RemoveChild ==
    nlast.op = "remove_child" =>
        LET old == lookup_child(nlast.before, nlast.key)
        IN  /\ NodeIntact
            /\ nlast.ret = old
            /\ IF old = NoChild THEN the_node = nlast.before
               ELSE /\ the_node.type = nlast.before.type
                    /\ lookup_child(the_node, nlast.key) = NoChild
                    /\ the_node.header.num_children
                            = nlast.before.header.num_children - 1
                    /\ the_node.header.prefix = nlast.before.header.prefix
                    /\ \A b \in Byte \ {nlast.key} :
                          lookup_child(the_node, b) = lookup_child(nlast.before, b)

\* a present key byte below the largest was removed from a Node16, and the
\* step before was a removal too
C14_Witness ==
    /\ nlast.op = "remove_child"
    /\ nlast.ret # NoChild
    /\ the_node.type = "Node16"
    /\ the_node.header.num_children >= 3
    /\ nlast.key < the_node.keys[the_node.header.num_children - 1]
    /\ nlast.before.header.num_children < 16
    /\ cnt.steps = 2

C14_WitnessAbsent ==
    /\ nlast.op = "remove_child"
    /\ nlast.ret = NoChild
    /\ the_node.type \in {"Node48", "Node256"}
    /\ the_node.header.num_children >= 16

C14_WitnessWide ==
    /\ nlast.op = "remove_child"
    /\ nlast.ret # NoChild
    /\ the_node.type \in {"Node48", "Node256"}
    /\ the_node.header.num_children >= 16

\* C15: write_child panics when the node is full, that is when num_children
\* already equals the upper capacity of its class (4, 16, 48 or 256).
C15_FullWritePanics ==
    (nlast.op = "write_child" /\ is_full(nlast.before)) => the_node = Panic

\* a full Node4 or Node16 was written a key byte above all of its own, and
\* the call returned with num_children past the capacity
C15_Witness ==
    /\ nlast.op = "write_child"
    /\ nlast.res = "ub"
    /\ is_full(nlast.before)
    /\ lookup_child(nlast.before, nlast.key) = NoChild
    /\ the_node # Panic
    /\ the_node.header.num_children > upper_capacity(the_node.type)

\* the class InnerNode::grow produces
GrownType(t) ==
    CASE t = "Node4" -> "Node16" [] t = "Node16" -> "Node48" [] t = "Node48" -> "Node256"

\* the node after the last step has the class t, the header of the node
\* before it and the same child for every key byte
SameHeaderAndMapping(t) ==
    /\ NodeIntact
    /\ the_node.type = t
    /\ the_node.header = nlast.before.header
    /\ \A b \in Byte : lookup_child(the_node, b) = lookup_child(nlast.before, b)

\* the first num_children keys of the Node16 after the last step ascend
Node16KeysAscend ==
    \A i \in 0..(the_node.header.num_children - 2) :
        the_node.keys[i] < the_node.keys[i + 1]

\* C16 as stated: growing an inner node to the next class (4 to 16, 16 to
\* 48, 48 to 256) produces a node with the same header and the same child
\* for every key byte, and a grown Node16 keeps its keys ascending.
C16_GrowKeepsMapping ==
    (nlast.op = "grow" /\ nlast.before.type \in {"Node4", "Node16", "Node48"}) =>
        /\ SameHeaderAndMapping(GrownType(nlast.before.type))
        /\ the_node.type = "Node16" => Node16KeysAscend

\* C16 amended: as C16, for a Node4 and a Node48 with any number of children
\* and for a Node16 that is full; grow on a Node16 with fewer than 16
\* children panics.
C16_GrowKeepsMappingWhenFull16 ==
    (nlast.op = "grow" /\ nlast.before.type \in {"Node4", "Node16", "Node48"}) =>
        IF nlast.before.type = "Node16" /\ nlast.before.header.num_children # 16
        THEN the_node = Panic
        ELSE /\ SameHeaderAndMapping(GrownType(nlast.before.type))
             /\ the_node.type = "Node16" => Node16KeysAscend

\* a full Node16 with a prefix was written to and then grown to a Node48
C16_Witness ==
    /\ nlast.op = "grow"
    /\ NodeIntact
    /\ the_node.type = "Node48"
    /\ the_node.header.num_children = 16
    /\ the_node.header.prefix # <<>>
    /\ cnt.steps = 2

\* a Node4 and a Node48 below their capacity were grown
C16_WitnessNotFull ==
    /\ nlast.op = "grow"
    /\ NodeIntact
    /\ \/ the_node.type = "Node16" /\ the_node.header.num_children \in 2..3
       \/ the_node.type = "Node256" /\ the_node.header.num_children \in 16..47

\* grow was called on a Node16 below its capacity
C16_WitnessPanic ==
    /\ nlast.op = "grow"
    /\ nlast.before.type = "Node16"
    /\ nlast.before.header.num_children \in 1..15
    /\ the_node = Panic

\* the class InnerNode::shrink produces
ShrunkType(t) ==
    CASE t = "Node16" -> "Node4" [] t = "Node48" -> "Node16" [] t = "Node256" -> "Node48"

\* C17: shrinking an inner node that fits the smaller class (256 to 48 with
\* at most 48 children, 48 to 16 with at most 16, 16 to 4 with at most 4)
\* produces a node with the same header and the same child for every key
\* byte; the Node16 made from a Node48 has its keys strictly ascending
\* whatever the order of the writes, and the Node48 made from a Node256
\* assigns the slots 0..n-1 in ascending key byte order.
C17_ShrinkKeepsMapping ==
    (/\ nlast.op = "shrink"
     /\ nlast.before.type \in {"Node16", "Node48", "Node256"}
     /\ nlast.before.header.num_children
            <= upper_capacity(ShrunkType(nlast.before.type))) =>
        /\ SameHeaderAndMapping(ShrunkType(nlast.before.type))
        /\ the_node.type = "Node16" => Node16KeysAscend
        /\ the_node.type = "Node48" =>
              LET ks == InnerNode256_keys(nlast.before)
              IN  \A b \in Byte :
                     the_node.child_indices[b]
                        = IF b \in ks THEN Cardinality({a \in ks : a < b}) ELSE EMPTY

\* a Node48 whose 16 children were written in descending key order, with a
\* child overwritten since, was shrunk to a Node16
C17_Witness ==
    /\ nlast.op = "shrink"
    /\ NodeIntact
    /\ nlast.before.type = "Node48"
    /\ the_node.header.num_children = 16
    /\ nlast.before.child_indices[1] > nlast.before.child_indices[3]
    /\ cnt.steps = 2

\* a Node256 with 48 children and a Node16 with 4 were shrunk
C17_Witness256 ==
    /\ nlast.op = "shrink"
    /\ NodeIntact
    /\ the_node.type = "Node48"
    /\ the_node.header.num_children = 48

C17_Witness16 ==
    /\ nlast.op = "shrink"
    /\ NodeIntact
    /\ the_node.type = "Node4"
    /\ the_node.header.num_children = 4

\* C18: shrink panics and yields no node whenever the node holds more
\* children than the next smaller class can hold (a Node48 with 17 or more,
\* a Node256 with 49 or more, a Node16 with 5 or more), and shrink on a
\* Node4 always panics.
C18_ShrinkPanics ==
    (/\ nlast.op = "shrink"
     /\ \/ nlast.before.type = "Node4"
        \/ nlast.before.header.num_children
                > upper_capacity(ShrunkType(nlast.before.type))) =>
        /\ the_node = Panic
        /\ nlast.res = "panic"

\* shrink of a Node48 with exactly 17 children, a write before it
C18_Witness ==
    /\ nlast.op = "shrink"
    /\ nlast.before.type = "Node48"
    /\ nlast.before.header.num_children = 17
    /\ the_node = Panic
    /\ cnt.steps = 2

\* shrink of a Node16 with 5, a Node256 with 49 and a Node4 with 2 children
C18_WitnessOthers ==
    /\ nlast.op = "shrink"
    /\ the_node = Panic
    /\ \/ nlast.before.type = "Node16" /\ nlast.before.header.num_children = 5
       \/ nlast.before.type = "Node256" /\ nlast.before.header.num_children = 49
       \/ nlast.before.type = "Node4" /\ nlast.before.header.num_children = 2

(***************************************************************************)
(* The opaque node pointer                                                 *)
(***************************************************************************)
\* C19: an opaque node pointer built from a typed pointer to a node of class
\* N carries the tag constant of N (Node4 = 0, Node16 = 1, Node48 = 2,
\* Node256 = 3, Leaf = 4): node_type() returns N, cast to N returns the
\* original pointer, cast to any other class returns None, to_node_ptr
\* dispatches to the variant of N, and the tag is never outside 0..4.
C19_TagMatchesClass ==
    optr.typed # NoChild =>
        LET N == optr.typed.class
            tag == TaggedPointer_to_data(optr.word)
        IN  /\ tag \in 0..4
            /\ tag = CASE N = "Node4" -> 0 [] N = "Node16" -> 1 [] N = "Node48" -> 2
                       [] N = "Node256" -> 3 [] N = "Leaf" -> 4
            /\ OpaqueNodePtr_node_type(optr.word) = [type |-> N]
            /\ OpaqueNodePtr_cast(optr.word, N) = optr.typed
            /\ \A M \in NodeClasses \ {N} : OpaqueNodePtr_cast(optr.word, M) = NoChild
            /\ OpaqueNodePtr_to_node_ptr(optr.word) = [variant |-> N, ptr |-> optr.typed]
            /\ optr.op = "cast" =>
                  optr.res = IF optr.arg = N THEN optr.typed ELSE NoChild
            /\ optr.op = "node_type" => optr.res = [type |-> N]
            /\ optr.op = "to_node_ptr" => optr.res = [variant |-> N, ptr |-> optr.typed]

\* a pointer to a leaf was cast to Node4
C19_Witness ==
    /\ optr.typed # NoChild
    /\ optr.typed.class = "Leaf"
    /\ optr.op = "cast"
    /\ optr.arg = "Node4"
    /\ optr.res = NoChild

\* a pointer to a Node48 was cast to Node48 and was dispatched
C19_WitnessSame ==
    /\ optr.typed # NoChild
    /\ optr.typed.class = "Node48"
    /\ \/ optr.op = "cast" /\ optr.arg = "Node48" /\ optr.res = optr.typed
       \/ optr.op = "to_node_ptr" /\ optr.res.variant = "Node48"

(***************************************************************************)
(* Keys that end at an inner node                                          *)
(***************************************************************************)
\* every inner node of the trie with the key bytes that lead to it: the
\* prefixes and child bytes of its ancestors
RECURSIVE InnerPaths(_, _)
InnerPaths(node, path) ==
    IF ~IsInner(node) THEN {}
    ELSE {[node |-> node, path |-> path]} \cup
         UNION {InnerPaths(child_at(node, b), path \o read_prefix(node.header) \o <<b>>) :
                    b \in node_keys(node)}

\* C20: search for a key that runs out of bytes at an inner node reports
\* not-found without failing: the empty key, a key that ends inside the
\* compressed prefix of the node, and a key equal to the path plus the whole
\* prefix of the node, which leaves no byte to select a child.
C20_KeyEndsAtInnerNode ==
    IsInner(root) =>
        /\ search(root, <<>>) = NotFound
        /\ \A np \in InnerPaths(root, <<>>) :
              \A j \in 0..prefix_size(np.node.header) :
                  search(root, np.path \o Take(read_prefix(np.node.header), j)) = NotFound

\* after an operation the trie has an inner node below the root, both with a
\* compressed prefix, the root's of two bytes or more
C20_Witness ==
    /\ IsInner(root)
    /\ last.op # "none"
    /\ prefix_size(root.header) >= 2
    /\ \E np \in InnerPaths(root, <<>>) :
          /\ np.path # <<>>
          /\ prefix_size(np.node.header) >= 1

(***************************************************************************)
(* Search below a lone inner node                                          *)
(***************************************************************************)
\* the keys searched for below a root with the given prefix: the prefix and
\* a key byte (written, removed, never written, next to a written one), such
\* a key cut short or extended, and the same with the first byte of the
\* prefix changed or the prefix left out
NodeProbes(prefix) ==
    LET wrong == IF prefix = <<>> THEN <<7>> ELSE [prefix EXCEPT ![1] = (@ + 1) % 256]
    IN  {<<>>, prefix, wrong}
        \cup {prefix \o <<b>> : b \in NodeOpBytes \cup {1, 2, 33, 97, 254}}
        \cup {prefix \o <<b, 0>> : b \in NodeOpBytes}
        \cup {wrong \o <<b>> : b \in NodeOpBytes}
        \cup {<<b>> : b \in NodeOpBytes}

\* what search returns below a root with this prefix and these (key byte,
\* child) pairs, whatever the class of the root
SearchOfPairs(prefix, pairs, key) ==
    IF /\ Len(key) > Len(prefix)
       /\ Take(key, Len(prefix)) = prefix
       /\ pairs[key[Len(prefix) + 1]] # NoChild
       /\ pairs[key[Len(prefix) + 1]].key = key
    THEN pairs[key[Len(prefix) + 1]]
    ELSE NotFound

\* C21: the result of search does not depend on the class of an inner node:
\* for the same prefix and the same (key byte, child) pairs written with
\* write_child, a root of class Node4, Node16, Node48 or Node256 gives the
\* same result for every key, the one the pairs alone determine, and an
\* inner node without children gives not-found for every key.
C21_SearchClassIndependent ==
    NodeIntact =>
        LET prefix == read_prefix(the_node.header)
        IN  \A key \in NodeProbes(prefix) :
                /\ search(the_node, key) = SearchOfPairs(prefix, shadow, key)
                /\ the_node.header.num_children = 0 => search(the_node, key) = NotFound

\* a Node256 with a prefix and at least 16 children, written to since, in
\* which a search finds a leaf and another search finds none
C21_Witness ==
    /\ NodeIntact
    /\ the_node.type = "Node256"
    /\ nlast.op = "write_child"
    /\ the_node.header.num_children >= 16
    /\ read_prefix(the_node.header) # <<>>
    /\ \E k1, k2 \in NodeProbes(read_prefix(the_node.header)) :
          /\ search(the_node, k1) # NotFound
          /\ search(the_node, k2) = NotFound
          /\ Len(k1) = Len(k2)
          /\ Take(k1, Len(k1) - 1) = Take(k2, Len(k2) - 1)

\* an inner node of each class without children
C21_WitnessEmpty ==
    /\ NodeIntact
    /\ the_node.header.num_children = 0
    /\ the_node.type = "Node48"
    /\ nlast.op = "remove_child"

\* the same pairs under a root of another class
C21_WitnessCompressed ==
    /\ NodeIntact
    /\ the_node.type \in {"Node4", "Node16"}
    /\ the_node.header.num_children >= 3
    /\ \E k \in NodeProbes(read_prefix(the_node.header)) : search(the_node, k) # NotFound

(***************************************************************************)
(* The end of an iteration                                                 *)
(***************************************************************************)
\* the calls of next() and next_back() that returned a leaf so far
LeavesReturned == Len(front_out) + Len(back_out)

\* C22: iteration over a finite trie is finite and fused.  No more calls
\* return a leaf than the trie has leaves; the call made when that many have
\* returned one returns None; and after a call returned None every call of
\* next() and next_back() returns None.
C22_FiniteAndFused ==
    /\ [](LeavesReturned <= NumLeaves(root))
    /\ [][/\ LeavesReturned = NumLeaves(root) => last'.res = "None"
          /\ last.res = "None" => last'.res = "None" /\ LeavesReturned' = LeavesReturned
         ]_vars

\* a trie of several levels iterated from both ends to the first None
C22_Witness ==
    /\ last.res = "None"
    /\ front_out # <<>>
    /\ back_out # <<>>
    /\ LeavesReturned = NumLeaves(root)
    /\ NumLeaves(root) >= 5
    /\ \E n \in InnerNodes(root) : n # root

(***************************************************************************)
(* The number of generated keys                                            *)
(***************************************************************************)
RECURSIVE ProductOfWidthsPlusOne(_)
ProductOfWidthsPlusOne(level_widths) ==
    IF level_widths = <<>> THEN 1
    ELSE (Head(level_widths) + 1) * ProductOfWidthsPlusOne(Tail(level_widths))

\* the iterator has returned its last key
KeysExhausted == keygen.gen.next_value = <<>>

\* C23: generate_key_fixed_length(level_widths) produces exactly
\* (level_widths[0] + 1) * ... * (level_widths[KEY_LENGTH - 1] + 1) keys in
\* total, for every array of widths in 1..=255.
C23_KeyCount ==
    KeysExhausted => keygen.produced = ProductOfWidthsPlusOne(keygen.level_widths)

\* the iterator for the widths [18] has returned all of its keys and None
C23_Witness ==
    /\ KeysExhausted
    /\ keygen.item = <<>>
    /\ keygen.level_widths = <<18>>
    /\ keygen.produced = 18

\* the iterator for the widths [3, 2, 1] has returned its 24 keys
C23_WitnessDoc ==
    /\ KeysExhausted
    /\ keygen.level_widths = <<3, 2, 1>>
    /\ keygen.produced = 24

(***************************************************************************)
(* When a node shrinks                                                     *)
(***************************************************************************)
\* the largest child count at which a node of class t shrinks; none for a
\* Node4
ShrinkAt(t) ==
    CASE t = "Node4" -> -1 [] t = "Node16" -> 4 [] t = "Node48" -> 16 [] t = "Node256" -> 48

\* should_shrink_inner_node against the table, for every inner class and
\* every child count a node can record
ShrinkTableAgrees ==
    \A t \in InnerTypes, n \in 0..256 :
        should_shrink_inner_node(t, n) <=> (n <= ShrinkAt(t))

\* C24: should_shrink_inner_node is true exactly when the child count is at
\* or below the capacity of the smaller class (4 for a Node16, 16 for a
\* Node48, 48 for a Node256) and false for a Node4 at every count; so a node
\* grown by an insert into a full node (5, 17 or 49 children) is back in the
\* previous class as soon as one child is removed: no node of the trie is
\* left at a count at which it shrinks.
C24_ShrinkThreshold ==
    /\ ShrinkTableAgrees
    /\ root.type # "Panic"
    /\ \A n \in InnerNodes(root) : n.header.num_children > ShrinkAt(n.type)
    /\ (/\ last.op = "remove"
        /\ last.res = "Removed"
        /\ IsInner(root)
        /\ root.header.num_children = NumLeaves(root)) =>
            root.type = CASE root.header.num_children <= 4 -> "Node4"
                          [] root.header.num_children \in 5..16 -> "Node16"
                          [] root.header.num_children \in 17..48 -> "Node48"
                          [] OTHER -> "Node256"

\* an insert grew a full Node16 into a Node48 with 17 children and the
\* removal of another key has shrunk it back to a Node16
C24_Witness ==
    /\ last.op = "remove"
    /\ last.res = "Removed"
    /\ cnt.inserted = 17
    /\ cnt.removed = 1
    /\ root.type = "Node16"
    /\ root.header.num_children = 16
    /\ last.key = <<1, 100>>
    /\ search(root, <<1, 101>>) # NotFound

(***************************************************************************)
(* Node16 lookup                                                           *)
(***************************************************************************)
\* a linear scan of the first num_children keys of a node: the child at the
\* first of them equal to the byte, NoChild when none is
LinearScan(node, b) ==
    LET n == node.header.num_children
        hits == {i \in 0..(n - 1) : node.keys[i] = b}
    IN  IF hits = {} THEN NoChild
        ELSE node.child_pointers[CHOOSE i \in hits : \A j \in hits : i <= j]

\* the bytes looked up in a Node16: every byte its key array holds, in the
\* initialized lanes or behind them, and bytes it may not hold
Node16Probes(node) ==
    {node.keys[i] : i \in 0..15} \cup NodeOpBytes \cup {1, 2, 254}

\* a Node16 with a child count its arrays can hold
IsNode16(node) ==
    /\ node # NoRoot /\ node # Panic /\ node # UB
    /\ node.type = "Node16"
    /\ node.header.num_children \in 0..16

\* a lane at or behind num_children holds the byte
StaleLane(node, b) ==
    \E i \in 0..15 : i >= node.header.num_children /\ node.keys[i] = b

\* C25: for a Node16 with n children, 0..16, lookup_child(b) by the 16-lane
\* compare and mask gives what a linear scan of the first n keys gives, also
\* when a lane at position n or above holds b: a stale copy left by
\* remove_child, the zero of a fresh node, a byte never written by shrink.
C25_Node16LookupIsLinearScan ==
    IsNode16(the_node) =>
        \A b \in Node16Probes(the_node) :
            lookup_child(the_node, b) = LinearScan(the_node, b)

\* remove_child has removed the largest key byte of a Node16 and its copy
\* stays in the lane behind the children; the lookup of it finds no child
C25_Witness ==
    /\ IsNode16(the_node)
    /\ nlast.op = "remove_child"
    /\ nlast.ret # NoChild
    /\ the_node.header.num_children >= 1
    /\ the_node.keys[the_node.header.num_children] = nlast.key
    /\ StaleLane(the_node, nlast.key)
    /\ lookup_child(the_node, nlast.key) = NoChild

\* a Node16 whose children do not include key byte 0 and whose lanes behind
\* them are the zeros of a fresh node; the lookup of 0 finds no child
C25_WitnessZeroTail ==
    /\ IsNode16(the_node)
    /\ the_node.header.num_children \in 1..15
    /\ the_node.keys[0] # 0
    /\ StaleLane(the_node, 0)
    /\ lookup_child(the_node, 0) = NoChild

\* an empty Node16: every lane is zero and the lookup of 0 finds no child
C25_WitnessEmpty ==
    /\ IsNode16(the_node)
    /\ the_node.header.num_children = 0
    /\ lookup_child(the_node, 0) = NoChild

\* a full Node16 after a write
C25_WitnessFull ==
    /\ IsNode16(the_node)
    /\ nlast.op = "write_child"
    /\ the_node.header.num_children = 16

(***************************************************************************)
(* Node48 minimum and maximum                                              *)
(***************************************************************************)
\* a Node48 with at least one child
IsNode48WithChild(node) ==
    /\ node # NoRoot /\ node # Panic /\ node # UB
    /\ node.type = "Node48"
    /\ node.header.num_children \in 1..48

\* C26: for a Node48 with at least one child, min() returns the child at
\* the smallest key byte whose index entry is not empty and max() the child
\* at the largest; the variant with 64-lane compares and trailing or leading
\* ones returns the key byte and child of the scalar forward or backward
\* scan.
C26_Node48MinMax ==
    IsNode48WithChild(the_node) =>
        LET ks == InnerNode48_keys(the_node)
            lo == MinOf(ks)
            hi == MaxOf(ks)
            min == InnerNode48_min(the_node)
            max == InnerNode48_max(the_node)
        IN  /\ ks # {}
            /\ min = [key |-> lo, child |-> lookup_child(the_node, lo)]
            /\ max = [key |-> hi, child |-> lookup_child(the_node, hi)]
            /\ min = InnerNode48_min_scalar(the_node)
            /\ max = InnerNode48_max_scalar(the_node)
            /\ min.child = shadow[lo]
            /\ max.child = shadow[hi]

\* after a write the smallest key byte of a Node48 lies in the second chunk
\* of the index table and the largest in the fourth
C26_Witness ==
    /\ IsNode48WithChild(the_node)
    /\ nlast.op = "write_child"
    /\ InnerNode48_min(the_node).key \in 64..127
    /\ InnerNode48_max(the_node).key \in 192..255
    /\ InnerNode48_min(the_node).child # InnerNode48_max(the_node).child

\* the only key byte lies in the third chunk
C26_WitnessThirdChunk ==
    /\ IsNode48WithChild(the_node)
    /\ InnerNode48_min(the_node).key \in 128..191
    /\ InnerNode48_max(the_node).key \in 128..191

\* the smallest key byte is 0 and the largest lies in the first chunk, after
\* a remove_child
C26_WitnessFirstChunk ==
    /\ IsNode48WithChild(the_node)
    /\ nlast.op = "remove_child"
    /\ nlast.ret # NoChild
    /\ InnerNode48_min(the_node).key = 0
    /\ InnerNode48_max(the_node).key \in 1..63

\* the smallest key byte lies in the fourth chunk
C26_WitnessFourthChunk ==
    /\ IsNode48WithChild(the_node)
    /\ InnerNode48_min(the_node).key = 255

(***************************************************************************)
(* Header prefix                                                           *)
(***************************************************************************)
\* C27: prepend_prefix(bytes) makes the prefix bytes followed by the old
\* prefix and raises prefix_size by the length of bytes, also when the
\* result is longer than NUM_PREFIX_BYTES; ltrim_prefix(len(bytes)) right
\* after it restores exactly the prefix from before the prepend.
C27_PrependThenTrim ==
    [][/\ hdr'.last.op = "prepend_prefix" /\ hdr'.steps = hdr.steps + 1 =>
            /\ hdr'.header # Panic
            /\ read_prefix(hdr'.header) = hdr'.last.bytes \o read_prefix(hdr.header)
            /\ prefix_size(hdr'.header) = prefix_size(hdr.header) + Len(hdr'.last.bytes)
            /\ hdr'.header.num_children = hdr.header.num_children
       /\ (/\ hdr.last.op = "prepend_prefix"
           /\ hdr'.last.op = "ltrim_prefix"
           /\ hdr'.last.n = Len(hdr.last.bytes)) =>
            hdr'.header = hdr.last.before
      ]_vars

\* bytes were prepended to a prefix of NUM_PREFIX_BYTES bytes, which left
\* the inline array, and trimming as many has given the old prefix back
C27_Witness ==
    /\ hdr.last.op = "ltrim_prefix"
    /\ hdr.steps = 2
    /\ hdr.last.n >= 1
    /\ hdr.variant = "Heap"
    /\ hdr.header # Panic
    /\ prefix_size(hdr.header) = NUM_PREFIX_BYTES
    /\ prefix_size(hdr.last.before) = NUM_PREFIX_BYTES + hdr.last.n
    /\ read_prefix(hdr.header) = Suffix(read_prefix(hdr.last.before), hdr.last.n)
    /\ \E p \in HeaderPrefixes : read_prefix(hdr.header) = p

\* the prepend of one byte to a short prefix
C27_WitnessShort ==
    /\ hdr.last.op = "prepend_prefix"
    /\ hdr.last.bytes = <<7>>
    /\ read_prefix(hdr.header) = <<7, 1, 2, 3>>
    /\ hdr.variant = "Inline"

Min2(a, b) == IF a <= b THEN a ELSE b

\* C28: match_prefix(key) returns the length of the longest common prefix
\* of the node prefix and the key: at most min(prefix_size, key length),
\* the bytes before it equal, the byte at it (when both have one) different,
\* and equal to prefix_size exactly when the whole prefix is a prefix of the
\* key.
C28_MatchPrefixIsCommonLength ==
    hdr.last.op = "match_prefix" =>
        LET p == read_prefix(hdr.header)
            k == hdr.last.bytes
            m == hdr.last.res
        IN  /\ m \in 0..Min2(prefix_size(hdr.header), Len(k))
            /\ \A i \in 1..m : p[i] = k[i]
            /\ m < Min2(Len(p), Len(k)) => p[m + 1] # k[m + 1]
            /\ (m = prefix_size(hdr.header)) <=> IsPrefixOf(p, k)

\* a key that agrees with a prefix of three bytes or more except in a byte
\* in the middle, agreeing again after it
C28_Witness ==
    /\ hdr.last.op = "match_prefix"
    /\ prefix_size(hdr.header) >= 3
    /\ Len(hdr.last.bytes) = prefix_size(hdr.header)
    /\ hdr.last.res \in 1..(prefix_size(hdr.header) - 2)
    /\ hdr.last.bytes[prefix_size(hdr.header)] = read_prefix(hdr.header)[prefix_size(hdr.header)]

\* the whole prefix, longer than NUM_PREFIX_BYTES, is a prefix of a longer key
C28_WitnessWhole ==
    /\ hdr.last.op = "match_prefix"
    /\ prefix_size(hdr.header) > NUM_PREFIX_BYTES
    /\ Len(hdr.last.bytes) > prefix_size(hdr.header)
    /\ hdr.last.res = prefix_size(hdr.header)

\* the key is shorter than the prefix and agrees with it throughout
C28_WitnessShortKey ==
    /\ hdr.last.op = "match_prefix"
    /\ hdr.last.bytes # <<>>
    /\ Len(hdr.last.bytes) < prefix_size(hdr.header)
    /\ hdr.last.res = Len(hdr.last.bytes)

(***************************************************************************)
(* grow of a Node16                                                        *)
(***************************************************************************)
\* C29: grow() on a Node16 with fewer than 16 children panics (the
\* assertion "Node must be full to grow to node 48") and produces no Node48;
\* it succeeds, with a Node48, only on a Node16 with exactly 16 children.
C29_GrowNode16NeedsFull ==
    (nlast.op = "grow" /\ nlast.before.type = "Node16") =>
        /\ nlast.before.header.num_children < 16 =>
                the_node = Panic /\ nlast.res = "panic"
        /\ nlast.before.header.num_children = 16 =>
                the_node.type = "Node48" /\ nlast.res = "ok"
        /\ the_node # Panic => nlast.before.header.num_children = 16

\* a child was written to a Node16, which then had between 5 and 15
\* children, and grow panicked
C29_Witness ==
    /\ nlast.op = "grow"
    /\ cnt.steps = 2
    /\ nlast.before.type = "Node16"
    /\ nlast.before.header.num_children \in 5..15
    /\ shadow[255] # NoChild
    /\ the_node = Panic

\* grow on an empty Node16 panicked
C29_WitnessEmpty ==
    /\ nlast.op = "grow"
    /\ nlast.before.type = "Node16"
    /\ nlast.before.header.num_children = 0
    /\ the_node = Panic

\* a Node16 filled by a write was grown to a Node48
C29_WitnessFull ==
    /\ nlast.op = "grow"
    /\ cnt.steps = 2
    /\ nlast.before.type = "Node16"
    /\ nlast.before.header.num_children = 16
    /\ the_node.type = "Node48"
    /\ the_node.header.num_children = 16
    /\ the_node.header.prefix = <<>>

(***************************************************************************)
(* Capacity ranges                                                         *)
(***************************************************************************)
\* C30: for every inner node class the upper capacity (4, 16, 48, 256) lies
\* inside capacity_range of the class, so a node that is full is within the
\* range of child counts its class accepts.
C30_UpperCapacityInRange ==
    (NodeIntact /\ the_node.type \in InnerTypes) =>
        /\ Range_contains(capacity_range(the_node.type), upper_capacity(the_node.type))
        /\ is_full(the_node) =>
                Range_contains(capacity_range(the_node.type), the_node.header.num_children)

\* the write of key byte 255 has filled a Node256, whose 256 children are
\* not a count inside capacity_range of a Node256
C30_Witness ==
    /\ NodeIntact
    /\ nlast.op = "write_child"
    /\ nlast.key = 255
    /\ the_node.type = "Node256"
    /\ the_node.header.num_children = 256
    /\ is_full(the_node)
    /\ ~Range_contains(capacity_range("Node256"), the_node.header.num_children)
    /\ \A t \in {"Node4", "Node16", "Node48"} :
          Range_contains(capacity_range(t), upper_capacity(t))

====
